---------------------------- MODULE Spec2Model ----------------------------
(***************************************************************************)
(* A model of storey/flow.py: the step propagation protocol, the two      *)
(* concurrent job-execution engines and the batching step.                 *)
(*                                                                         *)
(* The program runs on one asyncio event loop: a coroutine runs until it   *)
(* awaits something that is not ready.  Every action below is the code     *)
(* between two such suspension points.  asyncio.Queue.put suspends only    *)
(* when the queue is full and get only when it is empty; awaiting a task   *)
(* that is done does not suspend.                                          *)
(*                                                                         *)
(* The specifications of the module:                                       *)
(*   SpecEngine  _ConcurrentJobExecution and _ConcurrentByKeyJobExecution  *)
(*   SpecBatch   _Batching / Batch with a downstream chain                 *)
(*   SpecFlow    graphs of Map, Filter, FlatMap, Choice, Complete, Reduce  *)
(*   SpecBuild   build_flow on nested lists of steps                       *)
(***************************************************************************)
EXTENDS Integers, Sequences, FiniteSets, TLC

(***************************************************************************)
(* Bounds of the model.                                                    *)
(***************************************************************************)
MaxEvents == 3        \* events submitted to an engine
MaxInFlightBound == 2 \* max_in_flight ranges over 1..MaxInFlightBound
NumKeys == 2          \* event keys 1..NumKeys
MaxLateCalls == 1     \* calls to _do made after the sentinel's _do ended
MaxBatchEvents == 3   \* events submitted to a Batch step
MaxBatchSize == 2     \* max_events ranges over None and 1..MaxBatchSize
MaxFlowEvents == 2    \* events emitted into a step graph
MaxBody == 3          \* event bodies range over 0..MaxBody
NumSteps == 4         \* build_flow is given lists of up to NumSteps steps

VARIABLES
    \* ---- concurrent engines
    engine,         \* "plain": _ConcurrentJobExecution, "bykey": _ConcurrentByKeyJobExecution
    max_in_flight,  \* self._max_in_flight
    may_raise,      \* whether hooks (external calls, _handle_completed) may raise in this run
    started,        \* self._q is not None (queue and worker task created)
    q,              \* self._q: the jobs in the FIFO
    calls,          \* the _process_event tasks created so far
    pending_by_key, \* self._pending_by_key
    wpc,            \* position of the worker task
    wjob,           \* the worker's local `job`
    widx,           \* position in the worker's loop over in_flight
    wexc,           \* the worker task ended (or is ending) with an exception
    ppc,            \* position of the producer (the caller of _do)
    pjob,           \* the job the producer is putting
    last_do,        \* how the producer's latest _do call ended
    late_calls,     \* number of _do calls made after the first _do(_termination_obj) ended
    submitted,      \* history: real events _do was called with, in call order
    term_calls,     \* history: number of _do(_termination_obj) calls
    completed,      \* history: events passed to _handle_completed, in call order
    finished,       \* history: the external calls, in the order they finished
    refused,        \* history: number of _do calls that found the worker task done
    lazy_inits,     \* history: number of _lazy_init calls
    cleanups,       \* history: number of _cleanup calls
    sent_down,      \* history: number of _do_downstream(_termination_obj) calls
    \* ---- batching: Batch -> D -> S, D a step that may suspend before it forwards
    max_events,     \* self._max_events (0: None)
    timeout_secs,   \* whether self._timeout_secs is set
    d_suspends,     \* whether D suspends while it handles an event
    batch,          \* self._batch
    batch_time,     \* self._batch_time (0: None)
    event_count,    \* self._event_count
    timeout_task,   \* self._timeout_task (0: None)
    tasks,          \* the timeout tasks created so far
    bpc,            \* position of the caller of Batch._do
    bhold,          \* the batch that caller is emitting
    b_in,           \* history: number of real events Batch._do was called with
    d_log,          \* history: the arguments of D._do, in call order
    s_log,          \* history: the arguments of S._do, in call order
    aborted,        \* history: the batches whose handling in D was cancelled
    \* ---- step graphs
    shape,          \* which graph build_flow built
    flow_cfg,       \* the parameters the steps were constructed with
    fpc,            \* per node: position of the node's _do
    fev,            \* per node: the argument of the node's _do
    fwait,          \* per node: the outlets whose _do the node is waiting for
    fidx,           \* per node: index of the outlet the sentinel was last passed to
                    \* (FlatMap: of the element of fn_result last forwarded)
    facc,           \* per node: termination_result of _do_downstream
    fret,           \* per node: the value the node's _do returned
    result,         \* per node: Reduce._result
    filter,         \* per node: self._filter of a MapClass
    flog,           \* history, per node: the arguments of the node's _do, in call order
    settled,        \* history: the _set_result calls, in call order
    emitted,        \* history: the events the source has taken, in order
    term_result,    \* the termination result of the flow
    \* ---- build_flow
    steps,          \* the argument of build_flow
    outlets,        \* per step: self._outlets
    build_pc,       \* "new", then "returned" or "raised"
    build_ret       \* what build_flow returned

\* the configuration of a run, which no action changes
engineCfg == <<engine, max_in_flight, may_raise>>

engineVars == <<engine, max_in_flight, may_raise, started, q, calls, pending_by_key,
                wpc, wjob, widx, wexc, ppc, pjob, last_do, late_calls, submitted,
                term_calls,
                completed, finished, refused, lazy_inits,
                cleanups, sent_down>>

batchCfg == <<max_events, timeout_secs, d_suspends>>

batchVars == <<max_events, timeout_secs, d_suspends, batch, batch_time, event_count,
               timeout_task, tasks, bpc, bhold, b_in, d_log, s_log, aborted>>

flowCfg == <<shape, flow_cfg>>

flowVars == <<shape, flow_cfg, fpc, fev, fwait, fidx, facc, fret, result, filter, flog,
              settled, emitted, term_result>>

buildVars == <<steps, outlets, build_pc, build_ret>>

vars == <<engineVars, batchVars, flowVars, buildVars>>

\* what the actions of one part of the model leave alone
notEngine == <<batchVars, flowVars, buildVars>>
notBatch == <<engineVars, flowVars, buildVars>>
notFlow == <<engineVars, batchVars, buildVars>>
notBuild == <<engineVars, batchVars, flowVars>>

(***************************************************************************)
(* Values.                                                                 *)
(***************************************************************************)
Keys == 1..NumKeys
\* _termination_obj, as an event
TermObj == [id |-> 0, key |-> 0]
Event(i, k) == [id |-> i, key |-> k]
\* a job in the FIFO: _termination_obj or the pair (event, task)
TermJob == [ev |-> TermObj, call |-> 0]
Job(ev, c) == [ev |-> ev, call |-> c]
NoJob == [ev |-> TermObj, call |-> -1]
\* _PendingEvent, and whether the key is in the dictionary
PendingEvent(inf, pend) == [present |-> TRUE, in_flight |-> inf, pending |-> pend]
Absent == [present |-> FALSE, in_flight |-> <<>>, pending |-> <<>>]
\* the task created for a _process_event call on the events evs
NewCall(evs) == [evs |-> evs, st |-> "running", got |-> FALSE]

RECURSIVE SelectKey(_, _)
\* the events of s that carry key k, in order
SelectKey(s, k) ==
    IF s = <<>> THEN <<>>
    ELSE IF Head(s).key = k THEN <<Head(s)>> \o SelectKey(Tail(s), k)
    ELSE SelectKey(Tail(s), k)

IsPrefix(s, t) == Len(s) <= Len(t) /\ s = SubSeq(t, 1, Len(s))

(***************************************************************************)
(* The concurrent engines.                                                 *)
(***************************************************************************)
\* a queue without a bound
Full_Unbounded(qq) == FALSE

\* asyncio.Queue.full()
Full(qq) == Len(qq) >= max_in_flight

\* self._worker_awaitable.done()
WorkerDone == started /\ wpc = "done"

\* a _do that raises nothing of its own once the worker has ended
AwaitWorker_Silent(otherwise) == IF wexc THEN "worker_exception" ELSE "returned"

\* a _do that does not await the finished worker
AwaitWorker_NoReraise(otherwise) == otherwise

\* `await self._worker_awaitable` on a finished worker: re-raises the worker's
\* exception, otherwise returns and lets the caller go on to `otherwise`
AwaitWorker(otherwise) == IF wexc THEN "worker_exception" ELSE otherwise

\* the calls whose task was created and whose result the worker has not obtained
Outstanding == {c \in 1..Len(calls) : ~calls[c].got}

\* the producer may make one more call to _do
MayCall == ppc = "idle" /\ (term_calls = 0 \/ late_calls < MaxLateCalls)

\* bookkeeping of a call to _do (history variables only)
NoteCall(ev) ==
    /\ submitted' = IF ev = TermObj THEN submitted ELSE Append(submitted, ev)
    /\ term_calls' = IF ev = TermObj THEN term_calls + 1 ELSE term_calls
    /\ late_calls' = IF term_calls > 0 THEN late_calls + 1 ELSE late_calls
    /\ refused' = IF WorkerDone THEN refused + 1 ELSE refused

\* an initialisation that every call of _do repeats
LazyInit_Always ==
    /\ started' = TRUE
    /\ lazy_inits' = lazy_inits + 1

\* lines 419-422 / 492-495: the lazy creation of the queue and the worker
LazyInit ==
    /\ started' = TRUE
    /\ lazy_inits' = IF started THEN lazy_inits ELSE lazy_inits + 1

\* the worker's except and finally clauses without the call of _cleanup
WorkerExcept_NoCleanup ==
    /\ q' = IF q # <<>> THEN Tail(q) ELSE q
    /\ wexc' = TRUE
    /\ wpc' = "done"
    /\ cleanups' = cleanups

\* the worker's except and finally clauses: drop one queued job, re-raise,
\* and enter the cleanup hook
WorkerExcept ==
    /\ q' = IF q # <<>> THEN Tail(q) ELSE q
    /\ wexc' = TRUE
    /\ wpc' = "cleanup"
    /\ cleanups' = cleanups + 1

\* _ConcurrentJobExecution._do, up to its return, its raise or its first suspension
CJE_do(ev) ==
    /\ engine = "plain"
    /\ MayCall
    /\ NoteCall(ev)
    /\ LazyInit
    /\ UNCHANGED <<engineCfg, pending_by_key, wjob, widx, wexc,
                   completed, cleanups, sent_down, finished>>
    /\ UNCHANGED notEngine
    /\ wpc' = IF started THEN wpc ELSE "get"
    /\ IF WorkerDone
       THEN /\ last_do' = AwaitWorker("flow_error")
            /\ UNCHANGED <<q, calls, ppc, pjob>>
       ELSE IF ev = TermObj
       THEN /\ UNCHANGED <<calls, last_do>>
            /\ IF Full(q)
               THEN /\ ppc' = "put"
                    /\ pjob' = TermJob
                    /\ q' = q
               ELSE /\ q' = Append(q, TermJob)
                    /\ ppc' = "await_worker"
                    /\ pjob' = pjob
       ELSE /\ calls' = Append(calls, NewCall(<<ev>>))
            /\ IF Full(q)
               THEN /\ ppc' = "put"
                    /\ pjob' = Job(ev, Len(calls) + 1)
                    /\ UNCHANGED <<q, last_do>>
               ELSE /\ q' = Append(q, Job(ev, Len(calls) + 1))
                    /\ last_do' = "returned"
                    /\ UNCHANGED <<ppc, pjob>>

\* `await self._q.put(...)` going through after a wait, and the code up to the
\* putter's next suspension.  The producer waits at lines 429 / 434 (502 / 517)
\* and goes on with lines 430 / 435-436 (503 / 518-519); the by-key worker waits
\* at lines 465 / 481 and goes back to the head of its loop
Put_resume(who) ==
    /\ ~Full(q)
    /\ IF who = "producer"
       THEN /\ ppc = "put"
            /\ q' = Append(q, pjob)
            /\ pjob' = NoJob
            /\ IF pjob = TermJob
               THEN /\ ppc' = "await_worker"
                    /\ last_do' = last_do
               ELSE /\ ppc' = "idle"
                    /\ last_do' = IF WorkerDone THEN AwaitWorker("returned") ELSE "returned"
            /\ wpc' = wpc
       ELSE /\ wpc = "put"
            /\ q' = Append(q, wjob)
            /\ wpc' = "get"
            /\ UNCHANGED <<ppc, pjob, last_do>>
    /\ UNCHANGED <<engineCfg, started, calls, pending_by_key,
                   wjob, widx, wexc, late_calls, submitted, term_calls, completed,
                   lazy_inits, cleanups, sent_down, finished, refused>>
    /\ UNCHANGED notEngine

\* lines 430-431 (503-504): the sentinel's _do once the worker task is done
Do_await_worker ==
    /\ ppc = "await_worker"
    /\ WorkerDone
    /\ ppc' = "idle"
    /\ last_do' = AwaitWorker("term_returned")
    /\ sent_down' = IF wexc THEN sent_down ELSE sent_down + 1
    /\ UNCHANGED <<engineCfg, started, q, calls, pending_by_key,
                   wpc, wjob, widx, wexc, pjob, late_calls, submitted, term_calls,
                   completed, lazy_inits, cleanups, finished, refused>>
    /\ UNCHANGED notEngine

\* a queue that hands out its newest item first
QueueGet_Lifo(qq) == [item |-> qq[Len(qq)], rest |-> SubSeq(qq, 1, Len(qq) - 1)]

\* `await self._q.get()` on a non-empty queue: the oldest item, and what is left
QueueGet(qq) == [item |-> Head(qq), rest |-> Tail(qq)]

\* _ConcurrentJobExecution._worker, lines 393-396: a job is dequeued
CJE_worker_get ==
    /\ engine = "plain"
    /\ wpc = "get"
    /\ q # <<>>
    /\ q' = QueueGet(q).rest
    /\ IF QueueGet(q).item = TermJob
       THEN /\ wpc' = "cleanup"
            /\ cleanups' = cleanups + 1
            /\ wjob' = wjob
       ELSE /\ wpc' = "await"
            /\ wjob' = QueueGet(q).item
            /\ cleanups' = cleanups
    /\ UNCHANGED <<engineCfg, started, calls, pending_by_key,
                   widx, wexc, ppc, pjob, last_do, late_calls, submitted, term_calls,
                   completed, lazy_inits, sent_down, finished, refused>>
    /\ UNCHANGED notEngine

\* line 397 (469): `completed = await job[1]` returns or raises
Worker_await ==
    /\ wpc = "await"
    /\ calls[wjob.call].st # "running"
    /\ calls' = [calls EXCEPT ![wjob.call].got = TRUE]
    /\ IF calls[wjob.call].st = "ok"
       THEN /\ wpc' = "handle"
            /\ widx' = 1
            /\ UNCHANGED <<q, wexc, cleanups>>
       ELSE /\ WorkerExcept
            /\ widx' = widx
    /\ UNCHANGED <<engineCfg, started, pending_by_key, wjob,
                   ppc, pjob, last_do, late_calls, submitted, term_calls, completed,
                   lazy_inits, sent_down, finished, refused>>
    /\ UNCHANGED notEngine

\* line 398: _handle_completed(event, completed), which returns or raises
CJE_worker_handle ==
    /\ engine = "plain"
    /\ wpc = "handle"
    /\ completed' = Append(completed, wjob.ev)
    /\ \E raises \in (IF may_raise THEN BOOLEAN ELSE {FALSE}) :
         IF raises
         THEN WorkerExcept
         ELSE /\ wpc' = "get"
              /\ UNCHANGED <<q, wexc, cleanups>>
    /\ UNCHANGED <<engineCfg, started, calls, pending_by_key,
                   wjob, widx, ppc, pjob, last_do, late_calls, submitted, term_calls,
                   lazy_inits, sent_down, finished, refused>>
    /\ UNCHANGED notEngine

\* line 404 (489): the cleanup hook returns and the worker task is done
Worker_cleanup_done ==
    /\ wpc = "cleanup"
    /\ wpc' = "done"
    /\ UNCHANGED <<engineCfg, started, q, calls, pending_by_key,
                   wjob, widx, wexc, ppc, pjob, last_do, late_calls, submitted,
                   term_calls, completed, lazy_inits, cleanups, sent_down, finished, refused>>
    /\ UNCHANGED notEngine

\* an external call (the task of a _process_event) finishes, with a result or an
\* exception
Call_finishes(c) ==
    /\ calls[c].st = "running"
    /\ \E outcome \in (IF may_raise THEN {"ok", "failed"} ELSE {"ok"}) :
         calls' = [calls EXCEPT ![c].st = outcome]
    /\ finished' = Append(finished, c)
    /\ UNCHANGED <<engineCfg, started, q, pending_by_key,
                   wpc, wjob, widx, wexc, ppc, pjob, last_do, late_calls, submitted,
                   term_calls, completed, lazy_inits, cleanups, sent_down, refused>>
    /\ UNCHANGED notEngine

\* a submission that joins the events in flight
Submit_IntoInFlight(rec, ev) == PendingEvent(Append(rec.in_flight, ev), rec.pending)

\* a submission that only ever joins the pending events
Submit_PendingOnly(rec, ev) == PendingEvent(rec.in_flight, Append(rec.pending, ev))

\* a submission that takes the place of the events in flight
Submit_Overwrite(rec, ev) == PendingEvent(Append(rec.pending, ev), <<>>)

\* a submission that puts the event in front of the pending ones
Submit_Prepend(rec, ev) ==
    IF Len(rec.in_flight) = 0
    THEN PendingEvent(<<ev>> \o rec.pending, <<>>)
    ELSE PendingEvent(rec.in_flight, <<ev>> \o rec.pending)

\* lines 507-514: the per-key record after the event was appended to pending and,
\* when nothing is in flight for the key, pending was promoted to in_flight
Submit(rec, ev) ==
    IF Len(rec.in_flight) = 0
    THEN PendingEvent(Append(rec.pending, ev), <<>>)
    ELSE PendingEvent(rec.in_flight, Append(rec.pending, ev))

\* _ConcurrentByKeyJobExecution._do, up to its return, its raise or its first suspension
CBK_do(ev) ==
    /\ engine = "bykey"
    /\ MayCall
    /\ NoteCall(ev)
    /\ LazyInit
    /\ UNCHANGED <<engineCfg, wjob, widx, wexc,
                   completed, cleanups, sent_down, finished>>
    /\ UNCHANGED notEngine
    /\ wpc' = IF started THEN wpc ELSE "get"
    /\ IF WorkerDone
       THEN /\ last_do' = AwaitWorker("flow_error")
            /\ UNCHANGED <<q, calls, ppc, pjob, pending_by_key>>
       ELSE IF ev = TermObj
       THEN /\ UNCHANGED <<calls, last_do, pending_by_key>>
            /\ IF Full(q)
               THEN /\ ppc' = "put"
                    /\ pjob' = TermJob
                    /\ q' = q
               ELSE /\ q' = Append(q, TermJob)
                    /\ ppc' = "await_worker"
                    /\ pjob' = pjob
       ELSE LET rec == pending_by_key[ev.key]
                new == Submit(rec, ev)
            IN  /\ pending_by_key' = [pending_by_key EXCEPT ![ev.key] = new]
                /\ IF Len(rec.in_flight) = 0
                   THEN /\ calls' = Append(calls, NewCall(new.in_flight))
                        /\ IF Full(q)
                           THEN /\ ppc' = "put"
                                /\ pjob' = Job(ev, Len(calls) + 1)
                                /\ UNCHANGED <<q, last_do>>
                           ELSE /\ q' = Append(q, Job(ev, Len(calls) + 1))
                                /\ last_do' = "returned"
                                /\ UNCHANGED <<ppc, pjob>>
                   ELSE /\ last_do' = "returned"
                        /\ UNCHANGED <<q, calls, ppc, pjob>>

\* lines 457-458: the keys with events pending and nothing in flight
Unsent(pbk) ==
    {k \in Keys : pbk[k].present /\ pbk[k].pending # <<>> /\ pbk[k].in_flight = <<>>}

RECURSIVE UnsentEvents(_, _)
\* lines 459-461: the events of those keys, which the sentinel branch processes itself
UnsentEvents(pbk, k) ==
    IF k > NumKeys THEN <<>>
    ELSE (IF k \in Unsent(pbk) THEN pbk[k].pending ELSE <<>>) \o UnsentEvents(pbk, k + 1)

\* _ConcurrentByKeyJobExecution._worker, lines 455-466 and 468: a job is dequeued
CBK_worker_get ==
    /\ engine = "bykey"
    /\ wpc = "get"
    /\ q # <<>>
    /\ IF QueueGet(q).item = TermJob
       THEN /\ completed' = completed \o UnsentEvents(pending_by_key, 1)
            /\ IF QueueGet(q).rest = <<>>
               THEN /\ q' = QueueGet(q).rest
                    /\ wpc' = "cleanup"
                    /\ cleanups' = cleanups + 1
                    /\ wjob' = wjob
               ELSE /\ cleanups' = cleanups
                    /\ IF Full(QueueGet(q).rest)
                       THEN /\ q' = QueueGet(q).rest
                            /\ wpc' = "put"
                            /\ wjob' = TermJob
                       ELSE /\ q' = Append(QueueGet(q).rest, TermJob)
                            /\ wpc' = "get"
                            /\ wjob' = wjob
       ELSE /\ q' = QueueGet(q).rest
            /\ wpc' = "await"
            /\ wjob' = QueueGet(q).item
            /\ UNCHANGED <<cleanups, completed>>
    /\ UNCHANGED <<engineCfg, started, calls, pending_by_key,
                   widx, wexc, ppc, pjob, last_do, late_calls, submitted, term_calls,
                   lazy_inits, sent_down, finished, refused>>
    /\ UNCHANGED notEngine

\* the list the worker's loop of lines 471-472 runs over
InFlightOf(job) == pending_by_key[job.ev.key].in_flight

\* lines 471-472: one _handle_completed(event, completed) of the loop over in_flight
CBK_worker_handle ==
    /\ engine = "bykey"
    /\ wpc = "handle"
    /\ widx <= Len(InFlightOf(wjob))
    /\ completed' = Append(completed, InFlightOf(wjob)[widx])
    /\ \E raises \in (IF may_raise THEN BOOLEAN ELSE {FALSE}) :
         IF raises
         THEN /\ WorkerExcept
              /\ widx' = widx
         ELSE /\ widx' = widx + 1
              /\ UNCHANGED <<q, wexc, cleanups, wpc>>
    /\ UNCHANGED <<engineCfg, started, calls, pending_by_key,
                   wjob, ppc, pjob, last_do, late_calls, submitted, term_calls,
                   lazy_inits, sent_down, finished, refused>>
    /\ UNCHANGED notEngine

\* lines 473-483: after the loop, pending is promoted and sent, or the key is deleted
CBK_worker_promote ==
    /\ engine = "bykey"
    /\ wpc = "handle"
    /\ widx > Len(InFlightOf(wjob))
    /\ LET k == wjob.ev.key
           rec == pending_by_key[k]
           event == IF rec.in_flight = <<>> THEN wjob.ev
                    ELSE rec.in_flight[Len(rec.in_flight)]
       IN  IF rec.pending # <<>>
           THEN /\ pending_by_key' = [pending_by_key EXCEPT ![k] = PendingEvent(rec.pending, <<>>)]
                /\ calls' = Append(calls, NewCall(rec.pending))
                /\ IF Full(q)
                   THEN /\ wpc' = "put"
                        /\ wjob' = Job(event, Len(calls) + 1)
                        /\ q' = q
                   ELSE /\ q' = Append(q, Job(event, Len(calls) + 1))
                        /\ wpc' = "get"
                        /\ wjob' = wjob
           ELSE /\ pending_by_key' = [pending_by_key EXCEPT ![k] = Absent]
                /\ wpc' = "get"
                /\ UNCHANGED <<q, calls, wjob>>
    /\ UNCHANGED <<engineCfg, started, widx, wexc, ppc, pjob,
                   last_do, late_calls, submitted, term_calls, completed, lazy_inits,
                   cleanups, sent_down, finished, refused>>
    /\ UNCHANGED notEngine

\* the events a caller may submit next: ids count the calls, keys are free
NextEvents ==
    IF Len(submitted) < MaxEvents
    THEN {Event(Len(submitted) + 1, k) : k \in (IF engine = "plain" THEN {1} ELSE Keys)}
    ELSE {}

InitEngine ==
    /\ engine \in {"plain", "bykey"}
    /\ max_in_flight \in 1..MaxInFlightBound
    /\ may_raise \in BOOLEAN
    /\ started = FALSE
    /\ q = <<>>
    /\ calls = <<>>
    /\ pending_by_key = [k \in Keys |-> Absent]
    /\ wpc = "none"
    /\ wjob = NoJob
    /\ widx = 1
    /\ wexc = FALSE
    /\ ppc = "idle"
    /\ pjob = NoJob
    /\ last_do = "none"
    /\ late_calls = 0
    /\ submitted = <<>>
    /\ term_calls = 0
    /\ completed = <<>>
    /\ finished = <<>>
    /\ refused = 0
    /\ lazy_inits = 0
    /\ cleanups = 0
    /\ sent_down = 0

NextEngine ==
    \/ \E ev \in NextEvents \cup {TermObj} : CJE_do(ev)
    \/ \E who \in {"producer", "worker"} : Put_resume(who)
    \/ Do_await_worker
    \/ CJE_worker_get
    \/ Worker_await
    \/ CJE_worker_handle
    \/ \E ev \in NextEvents \cup {TermObj} : CBK_do(ev)
    \/ CBK_worker_get
    \/ CBK_worker_handle
    \/ CBK_worker_promote
    \/ Worker_cleanup_done
    \/ \E c \in 1..Len(calls) : Call_finishes(c)

(***************************************************************************)
(* Batching.  The graph is Batch -> D -> S.  D stands for a step that, on  *)
(* a real event, may suspend before it forwards the event to S (a Map with *)
(* an asynchronous function); it forwards the sentinel at once.            *)
(***************************************************************************)
\* an event submitted to the Batch step: body i, event time i
InEvent(i) == [body |-> i, time |-> i]
\* an emission that loses the first entry of the batch
BatchEvent_Tail(b, t) == [body |-> Tail(b), time |-> t]

\* Event(batch, time=batch_time), line 645
BatchEvent(b, t) == [body |-> b, time |-> t]

\* _termination_obj as an entry of a log
TermItem == [body |-> <<>>, time |-> -1]

\* no item in hand
NoItem == [body |-> <<>>, time |-> 0]

\* a timeout task that never wakes up
SleepingTask_Never == [st |-> "cancelled", item |-> [body |-> <<>>, time |-> 0]]

\* the task of _sleep_and_emit, created at line 612
SleepingTask == [st |-> "sleeping", item |-> NoItem]

\* a cancel() that leaves the task as it is
Cancel_Nothing(ts, t) == ts

\* lines 603-604 / 618-619: self._timeout_task.cancel(), when there is a task and it
\* is not cancelled.  A task that is done is left as it is; a task that sleeps or is
\* suspended in its emission gets CancelledError at the await it is suspended in
Cancel(ts, t) ==
    IF t # 0 /\ ts[t].st \in {"sleeping", "emitting"}
    THEN [ts EXCEPT ![t].st = "cancelled"]
    ELSE ts

\* an _emit_batch that emits whatever the batch holds
NonEmpty_Always(b) == TRUE

\* line 623: len(self._batch) > 0
NonEmpty(b) == Len(b) > 0

\* the emissions that this cancel() aborts while D is handling them
Aborted(ts, t) ==
    IF t # 0 /\ ts[t].st = "emitting" THEN {ts[t].item} ELSE {}

\* _Batching._do on a real event, lines 609-620, with _emit_batch and Batch._emit,
\* up to its return or its suspension in D
Batch_do(ev) ==
    /\ bpc = "idle"
    /\ b_in' = b_in + 1
    /\ LET first == Len(batch) = 0
           tasks1 == IF first /\ timeout_secs THEN Append(tasks, SleepingTask) ELSE tasks
           task1 == IF first /\ timeout_secs THEN Len(tasks) + 1 ELSE timeout_task
           time1 == IF first THEN ev.time ELSE batch_time
           batch1 == Append(batch, ev.body)
           item == BatchEvent(batch1, time1)
       IN  /\ timeout_task' = task1
           /\ IF event_count + 1 = max_events
              THEN /\ tasks' = Cancel(tasks1, task1)
                   /\ aborted' = aborted \cup Aborted(tasks1, task1)
                   /\ batch' = <<>>
                   /\ batch_time' = 0
                   /\ event_count' = 0
                   /\ d_log' = Append(d_log, item)
                   /\ IF d_suspends
                      THEN /\ bpc' = "emit"
                           /\ bhold' = item
                           /\ s_log' = s_log
                      ELSE /\ s_log' = Append(s_log, item)
                           /\ UNCHANGED <<bpc, bhold>>
              ELSE /\ tasks' = tasks1
                   /\ batch' = batch1
                   /\ batch_time' = time1
                   /\ event_count' = event_count + 1
                   /\ UNCHANGED <<aborted, d_log, s_log, bpc, bhold>>
    /\ UNCHANGED batchCfg
    /\ UNCHANGED notBatch

\* _Batching._do on the sentinel, lines 602-607, up to its return or its suspension in D
Batch_do_term ==
    /\ bpc = "idle"
    /\ tasks' = Cancel(tasks, timeout_task)
    /\ aborted' = aborted \cup Aborted(tasks, timeout_task)
    /\ IF NonEmpty(batch)
       THEN LET item == BatchEvent(batch, batch_time)
            IN  /\ batch' = <<>>
                /\ batch_time' = 0
                /\ event_count' = 0
                /\ IF d_suspends
                   THEN /\ bpc' = "term_emit"
                        /\ bhold' = item
                        /\ d_log' = Append(d_log, item)
                        /\ s_log' = s_log
                   ELSE /\ bpc' = "done"
                        /\ bhold' = bhold
                        /\ d_log' = d_log \o <<item, TermItem>>
                        /\ s_log' = s_log \o <<item, TermItem>>
       ELSE /\ bpc' = "done"
            /\ d_log' = Append(d_log, TermItem)
            /\ s_log' = Append(s_log, TermItem)
            /\ UNCHANGED <<batch, batch_time, event_count, bhold>>
    /\ UNCHANGED <<timeout_task, b_in>>
    /\ UNCHANGED batchCfg
    /\ UNCHANGED notBatch

\* D resumes the handling of the batch the caller of Batch._do emitted, and passes it
\* to S; _do then returns (line 620) or goes on to lines 606-607
Batch_do_resume ==
    /\ bpc \in {"emit", "term_emit"}
    /\ bhold' = NoItem
    /\ IF bpc = "emit"
       THEN /\ bpc' = "idle"
            /\ s_log' = Append(s_log, bhold)
            /\ d_log' = d_log
       ELSE /\ bpc' = "done"
            /\ s_log' = s_log \o <<bhold, TermItem>>
            /\ d_log' = Append(d_log, TermItem)
    /\ UNCHANGED <<batch, batch_time, event_count, timeout_task, tasks, b_in, aborted>>
    /\ UNCHANGED batchCfg
    /\ UNCHANGED notBatch

\* _sleep_and_emit, lines 595-596: the sleep is over, the batch is emitted to D
Timeout_fires(t) ==
    /\ tasks[t].st = "sleeping"
    /\ IF NonEmpty(batch)
       THEN LET item == BatchEvent(batch, batch_time)
            IN  /\ batch' = <<>>
                /\ batch_time' = 0
                /\ event_count' = 0
                /\ d_log' = Append(d_log, item)
                /\ IF d_suspends
                   THEN /\ tasks' = [tasks EXCEPT ![t] = [st |-> "emitting", item |-> item]]
                        /\ s_log' = s_log
                   ELSE /\ tasks' = [tasks EXCEPT ![t].st = "done"]
                        /\ s_log' = Append(s_log, item)
       ELSE /\ tasks' = [tasks EXCEPT ![t].st = "done"]
            /\ UNCHANGED <<batch, batch_time, event_count, d_log, s_log>>
    /\ UNCHANGED <<timeout_task, bpc, bhold, b_in, aborted>>
    /\ UNCHANGED batchCfg
    /\ UNCHANGED notBatch

\* D resumes the handling of a batch that a timeout task emitted, and passes it to S
Timeout_resume(t) ==
    /\ tasks[t].st = "emitting"
    /\ tasks' = [tasks EXCEPT ![t] = [st |-> "done", item |-> NoItem]]
    /\ s_log' = Append(s_log, tasks[t].item)
    /\ UNCHANGED <<batch, batch_time, event_count, timeout_task, bpc, bhold, b_in,
                   d_log, aborted>>
    /\ UNCHANGED batchCfg
    /\ UNCHANGED notBatch

\* _Batching.__init__, lines 575-586
InitBatch ==
    /\ max_events \in 0..MaxBatchSize
    /\ timeout_secs \in BOOLEAN
    /\ d_suspends \in BOOLEAN
    /\ batch = <<>>
    /\ batch_time = 0
    /\ event_count = 0
    /\ timeout_task = 0
    /\ tasks = <<>>
    /\ bpc = "idle"
    /\ bhold = NoItem
    /\ b_in = 0
    /\ d_log = <<>>
    /\ s_log = <<>>
    /\ aborted = {}

\* no Batch step in the run
IdleBatch ==
    /\ max_events = 0
    /\ timeout_secs = FALSE
    /\ d_suspends = FALSE
    /\ batch = <<>>
    /\ batch_time = 0
    /\ event_count = 0
    /\ timeout_task = 0
    /\ tasks = <<>>
    /\ bpc = "none"
    /\ bhold = NoItem
    /\ b_in = 0
    /\ d_log = <<>>
    /\ s_log = <<>>
    /\ aborted = {}

\* no concurrent engine in the run
IdleEngine ==
    /\ engine = "none"
    /\ max_in_flight = 1
    /\ may_raise = FALSE
    /\ started = FALSE
    /\ q = <<>>
    /\ calls = <<>>
    /\ pending_by_key = [k \in Keys |-> Absent]
    /\ wpc = "none"
    /\ wjob = NoJob
    /\ widx = 1
    /\ wexc = FALSE
    /\ ppc = "none"
    /\ pjob = NoJob
    /\ last_do = "none"
    /\ late_calls = 0
    /\ submitted = <<>>
    /\ term_calls = 0
    /\ completed = <<>>
    /\ finished = <<>>
    /\ refused = 0
    /\ lazy_inits = 0
    /\ cleanups = 0
    /\ sent_down = 0

NextBatch ==
    \/ \E ev \in {InEvent(b_in + 1)} : b_in < MaxBatchEvents /\ Batch_do(ev)
    \/ Batch_do_term
    \/ Batch_do_resume
    \/ \E t \in 1..Len(tasks) : Timeout_fires(t)
    \/ \E t \in 1..Len(tasks) : Timeout_resume(t)

(***************************************************************************)
(* Step graphs.  Node 0 is the source; the other nodes are Map, Reduce,    *)
(* Complete and Choice steps linked as build_flow links them.  The source  *)
(* passes one event at a time to _do_downstream and waits for it to        *)
(* return before it takes the next one; the sentinel is its last item.     *)
(* Every event carries an awaitable result.                                *)
(*                                                                         *)
(*   linear    Source -> Map(g) -> Reduce(initial_value, fn)               *)
(*   complete  Source -> Map(+1) -> Complete, and with a subtree           *)
(*             Complete -> [Map(+1) -> Reduce, Reduce]                     *)
(*   fanout    Source -> Map(+1) -> [o2, o3, o4], each outlet a Reduce or  *)
(*             a Map without outlets                                       *)
(*   choice    Source -> Choice([(o2, c1), (o3, c2)], default o4 or None)  *)
(*   chain     Source -> FlatMap -> Filter -> Map(+1) -> [Reduce, Reduce]  *)
(*   raising   Source -> Map(+1) -> [Map, Map -> Reduce, Reduce], the      *)
(*             function of the first or of the second outlet raises on     *)
(*             even elements                                               *)
(*   mapclass  Source -> MapClass -> Reduce, the do of the MapClass calls  *)
(*             self.filter() on odd elements and raises on 3               *)
(***************************************************************************)
Nodes == 0..5
\* Python's None
None == -1
FlowEvent(i, b) == [id |-> i, body |-> b]
\* _termination_obj, as an entry of a log
TermEvent == [id |-> 0, body |-> None]
NoEvent == [id |-> -1, body |-> None]
Bodies == 0..MaxBody

\* the first outlet only
Range_FirstOnly(s) == IF s = <<>> THEN {} ELSE {s[1]}

\* the entries of a sequence: all the outlets of self._outlets
Range(s) == {s[i] : i \in 1..Len(s)}

DefaultCfg == [g |-> "inc", fn |-> "add", initial_value |-> 0, is_async |-> FALSE,
               termination_result_fn |-> "default", nulls |-> {},
               full_event |-> FALSE, subtree |-> FALSE, has_default |-> FALSE,
               raises |-> 0]

\* the graphs and step parameters a run is drawn from
FlowConfigs(sh) ==
    CASE sh = "linear" ->
           {[DefaultCfg EXCEPT !.g = g, !.fn = fn, !.initial_value = iv, !.is_async = a] :
               g \in {"inc", "double"}, fn \in {"add", "weighted"}, iv \in {0, 1},
               a \in BOOLEAN}
      [] sh = "complete" ->
           {[DefaultCfg EXCEPT !.full_event = fe, !.subtree = st, !.is_async = a] :
               fe \in BOOLEAN, st \in BOOLEAN, a \in BOOLEAN}
      [] sh = "fanout" ->
           {[DefaultCfg EXCEPT !.nulls = ns, !.is_async = a] :
               ns \in SUBSET {2, 3, 4}, a \in BOOLEAN}
           \cup {[DefaultCfg EXCEPT !.termination_result_fn = "weighted", !.is_async = a] :
               a \in BOOLEAN}
      [] sh = "choice" ->
           {[DefaultCfg EXCEPT !.has_default = d] : d \in BOOLEAN}
      [] sh = "chain" ->
           {[DefaultCfg EXCEPT !.is_async = a] : a \in BOOLEAN}
      [] sh = "raising" ->
           {[DefaultCfg EXCEPT !.raises = r, !.is_async = a] : r \in {2, 3}, a \in BOOLEAN}
      [] sh = "mapclass" ->
           {[DefaultCfg EXCEPT !.is_async = a] : a \in BOOLEAN}

\* self._outlets of node n, as to() and Choice.__init__ fill it
Outs(n) ==
    CASE shape = "linear" -> IF n = 0 THEN <<1>> ELSE IF n = 1 THEN <<2>> ELSE <<>>
      [] shape = "complete" ->
           IF n = 0 THEN <<1>> ELSE IF n = 1 THEN <<2>>
           ELSE IF ~flow_cfg.subtree THEN <<>>
           ELSE IF n = 2 THEN <<3, 4>> ELSE IF n = 3 THEN <<5>> ELSE <<>>
      [] shape = "fanout" ->
           IF n = 0 THEN <<1>> ELSE IF n = 1 THEN <<2, 3, 4>> ELSE <<>>
      [] shape = "choice" ->
           IF n = 0 THEN <<1>>
           ELSE IF n = 1 THEN (IF flow_cfg.has_default THEN <<2, 3, 4>> ELSE <<2, 3>>)
           ELSE <<>>
      [] shape = "chain" ->
           IF n \in {0, 1, 2} THEN <<n + 1>> ELSE IF n = 3 THEN <<4, 5>> ELSE <<>>
      [] shape = "raising" ->
           IF n = 0 THEN <<1>> ELSE IF n = 1 THEN <<2, 3, 4>>
           ELSE IF n = 3 THEN <<5>> ELSE <<>>
      [] shape = "mapclass" ->
           IF n = 0 THEN <<1>> ELSE IF n = 1 THEN <<2>> ELSE <<>>
      [] OTHER -> <<>>

\* the class of node n
Kind(n) ==
    IF n = 0 THEN "Source"
    ELSE CASE shape = "linear" ->
                IF n = 1 THEN "Map" ELSE IF n = 2 THEN "Reduce" ELSE "none"
           [] shape = "complete" ->
                IF n = 1 THEN "Map" ELSE IF n = 2 THEN "Complete"
                ELSE IF ~flow_cfg.subtree THEN "none"
                ELSE IF n = 3 THEN "Map" ELSE "Reduce"
           [] shape = "fanout" ->
                IF n = 1 THEN "Map"
                ELSE IF n = 5 THEN "none"
                ELSE IF n \in flow_cfg.nulls THEN "Map" ELSE "Reduce"
           [] shape = "choice" ->
                IF n = 1 THEN "Choice"
                ELSE IF n \in {2, 3} \/ (n = 4 /\ flow_cfg.has_default) THEN "Reduce"
                ELSE "none"
           [] shape = "chain" ->
                IF n = 1 THEN "FlatMap" ELSE IF n = 2 THEN "Filter"
                ELSE IF n = 3 THEN "Map" ELSE "Reduce"
           [] shape = "raising" ->
                IF n \in {1, 2, 3} THEN "Map" ELSE "Reduce"
           [] shape = "mapclass" ->
                IF n = 1 THEN "MapClass" ELSE IF n = 2 THEN "Reduce" ELSE "none"
           [] OTHER -> "none"

\* the parameters of node n
MapFnOf(n) == IF shape = "linear" THEN flow_cfg.g ELSE "inc"
IsAsync(n) == flow_cfg.is_async
ReduceFnOf(n) ==
    IF shape = "linear" THEN flow_cfg.fn
    ELSE IF shape = "fanout" /\ n = 4 THEN "weighted" ELSE "add"
InitialValue(n) ==
    IF shape = "linear" THEN flow_cfg.initial_value
    ELSE IF shape = "fanout" /\ n = 3 THEN 1 ELSE 0
TerminationResultFnOf(n) ==
    IF shape = "fanout" /\ n = 1 THEN flow_cfg.termination_result_fn ELSE "default"
FullEvent(n) == Kind(n) = "Complete" /\ flow_cfg.full_event
\* self._choice_array: (outlet, condition) pairs
choice_array == <<[outlet |-> 2, condition |-> 1], [outlet |-> 3, condition |-> 2]>>
\* self._default (0: None)
Default(n) == IF flow_cfg.has_default THEN 4 ELSE 0

\* the user functions of the runs
MapUserFn(name, x) == IF name = "inc" THEN x + 1 ELSE 2 * x
ReduceUserFn(name, acc, x) == IF name = "add" THEN acc + x ELSE 2 * acc + x
Combiner(name, x, y) ==
    IF name = "default" THEN (IF x # None THEN x ELSE y) ELSE 2 * x + y
Condition(c, element) == IF c = 1 THEN element \in {1, 2} ELSE element \in {2, 3}
\* of a FlatMap: no element for 0 and 3, <<1>> for 1, <<2, 3>> for 2, ...
FlatMapUserFn(x) == [i \in 1..(x % 3) |-> x + i - 1]
\* of a Filter: keeps the elements other than 3
FilterUserFn(x) == x # 3

\* the do method of the MapClass of the runs: it calls self.filter() on odd
\* elements, raises on 3 (after the call of filter) and returns element + 2
DoCallsFilter(element) == element % 2 = 1
DoRaises(element) == element = 3
DoResult(element) == element + 2

\* whether the function of node n raises when it is called with element
FnRaises(n, element) == n = flow_cfg.raises /\ element % 2 = 0

\* Flow._get_safe_event_or_body
GetSafeEventOrBody(n, event) == IF FullEvent(n) THEN event ELSE event.body
\* Flow._user_fn_output_to_event with full_event False
UserFnOutputToEvent(event, fn_result) == [event EXCEPT !.body = fn_result]
\* the event a Map step passes downstream
Mapped(n, event) ==
    UserFnOutputToEvent(event, MapUserFn(MapFnOf(n), GetSafeEventOrBody(n, event)))

\* node n moves to position npc with return value nret, passes e to the _do of
\* the nodes passTo and takes the return values of the nodes in reset
Move(n, npc, nret, passTo, e, reset) ==
    /\ fpc' = [m \in Nodes |-> IF m = n THEN npc
                                ELSE IF m \in passTo THEN "call"
                                ELSE IF m \in reset THEN "idle"
                                ELSE fpc[m]]
    /\ fret' = [fret EXCEPT ![n] = nret]
    /\ fev' = [m \in Nodes |-> IF m \in passTo THEN e ELSE fev[m]]
    /\ flog' = [m \in Nodes |-> IF m \in passTo THEN Append(flog[m], e) ELSE flog[m]]
    /\ fwait' = [fwait EXCEPT ![n] = passTo]

\* the source, once _do_downstream has returned r: it takes the next item, or
\* ends with r as the termination result of the flow
Source_continue(n, r, reset) ==
    /\ Move(n, IF fpc[n] = "term" THEN "finished" ELSE "idle", None, {}, NoEvent, reset)
    /\ term_result' = IF fpc[n] = "term" THEN r ELSE term_result
    /\ settled' = settled

\* Complete._do after _do_downstream has returned termination_result
Complete_settle(n, termination_result, reset) ==
    /\ Move(n, "done", termination_result, {}, NoEvent, reset)
    /\ settled' = IF fev[n] # TermEvent
                  THEN Append(settled, [id |-> fev[n].id,
                                        result |-> GetSafeEventOrBody(n, fev[n])])
                  ELSE settled
    /\ term_result' = term_result

\* what the caller of _do_downstream does when it returns r
AfterDownstream(n, r, reset) ==
    CASE Kind(n) = "Source" -> Source_continue(n, r, reset)
      [] Kind(n) = "Complete" -> Complete_settle(n, r, reset)
      [] OTHER ->
           /\ Move(n, "done", IF fev[n] = TermEvent THEN r ELSE None, {}, NoEvent, reset)
           /\ UNCHANGED <<settled, term_result>>

\* Flow._do_downstream(e) called by node n, up to its first await
DoDownstream(n, e) ==
    IF Outs(n) = <<>>
    THEN /\ AfterDownstream(n, None, {})
         /\ UNCHANGED <<fidx, facc>>
    ELSE IF e = TermEvent
    THEN /\ Move(n, "term", fret[n], {Outs(n)[1]}, TermEvent, {})
         /\ fidx' = [fidx EXCEPT ![n] = 1]
         /\ UNCHANGED <<facc, settled, term_result>>
    ELSE /\ Move(n, "wait", fret[n], Range(Outs(n)), e, {})
         /\ UNCHANGED <<fidx, facc, settled, term_result>>

\* the _do of node n ends with an exception
Raise(n) ==
    /\ Move(n, "raised", None, {}, NoEvent, {})
    /\ UNCHANGED <<fidx, facc, settled, term_result>>

\* _do_downstream(real event), lines 50-53: the outlets' _do are awaited in the
\* order of self._outlets; the exception of the first of them that raised, all
\* those before it having returned, leaves _do_downstream and the _do that
\* called it.  Nothing is done about the other outlets.
Downstream_raise(n) ==
    /\ fpc[n] = "wait"
    /\ \E k \in 1..Len(Outs(n)) :
          /\ Outs(n)[k] \in fwait[n]
          /\ fpc[Outs(n)[k]] = "raised"
          /\ \A j \in 1..(k - 1) : Outs(n)[j] \in fwait[n] => fpc[Outs(n)[j]] = "done"
    /\ Raise(n)
    /\ UNCHANGED <<flowCfg, filter, result, emitted>>
    /\ UNCHANGED notFlow

\* the outlets whose _do a caller of _do_downstream(real event) waits for
Awaited_FirstOnly(n) == fwait[n] \cap {Outs(n)[1]}

Awaited(n) == fwait[n]

\* _do_downstream(real event), lines 50-53: every outlet's _do has returned
Downstream_join(n) ==
    /\ fpc[n] = "wait"
    /\ \A o \in Awaited(n) : fpc[o] = "done"
    /\ AfterDownstream(n, None, Awaited(n))
    /\ UNCHANGED <<flowCfg, filter, fidx, facc, result, emitted>>
    /\ UNCHANGED notFlow

\* line 45 with the combiner's arguments exchanged
TerminationResult_Swapped(n, termination_result, r) ==
    Combiner(TerminationResultFnOf(n), r, termination_result)

\* line 45: self._termination_result_fn(termination_result, <result of outlet i>)
TerminationResult(n, termination_result, r) ==
    Combiner(TerminationResultFnOf(n), termination_result, r)

\* _do_downstream(_termination_obj), lines 43-46: the outlet the sentinel was
\* passed to has returned; fold its result and go on to the next outlet
Downstream_term_next(n) ==
    /\ fpc[n] = "term"
    /\ LET o == Outs(n)[fidx[n]]
           termination_result ==
               IF fidx[n] = 1 THEN fret[o] ELSE TerminationResult(n, facc[n], fret[o])
       IN /\ fpc[o] = "done"
          /\ facc' = [facc EXCEPT ![n] = termination_result]
          /\ IF fidx[n] < Len(Outs(n))
             THEN /\ Move(n, "term", fret[n], {Outs(n)[fidx[n] + 1]}, TermEvent, {o})
                  /\ fidx' = [fidx EXCEPT ![n] = @ + 1]
                  /\ UNCHANGED <<settled, term_result>>
             ELSE /\ AfterDownstream(n, termination_result, {o})
                  /\ UNCHANGED fidx
    /\ UNCHANGED <<flowCfg, filter, result, emitted>>
    /\ UNCHANGED notFlow

\* _UnaryFunctionFlow._do of a Map, up to its first await
Map_do(n) ==
    /\ Kind(n) = "Map"
    /\ fpc[n] = "call"
    /\ IF fev[n] = TermEvent THEN DoDownstream(n, TermEvent)
       ELSE IF IsAsync(n)
       THEN /\ Move(n, "fn", fret[n], {}, NoEvent, {})
            /\ UNCHANGED <<fidx, facc, settled, term_result>>
       ELSE IF FnRaises(n, GetSafeEventOrBody(n, fev[n]))
       THEN Raise(n)
       ELSE DoDownstream(n, Mapped(n, fev[n]))
    /\ UNCHANGED <<flowCfg, filter, result, emitted>>
    /\ UNCHANGED notFlow

\* the asynchronous function of a Map returns or raises: _do_internal
Map_resume(n) ==
    /\ fpc[n] = "fn"
    /\ IF FnRaises(n, GetSafeEventOrBody(n, fev[n]))
       THEN Raise(n)
       ELSE DoDownstream(n, Mapped(n, fev[n]))
    /\ UNCHANGED <<flowCfg, filter, result, emitted>>
    /\ UNCHANGED notFlow

\* the flag is left as it is
ClearFilter_Kept(n) == filter

\* MapClass._do, line 287: self._filter = False
ClearFilter(n) == [filter EXCEPT ![n] = FALSE]

\* MapClass._do after _call has returned fn_result, lines 283-287: the event is
\* forwarded unless self._filter is set, and then the flag is cleared
MapClass_after_call(n, flag) ==
    IF ~flag
    THEN /\ DoDownstream(n, UserFnOutputToEvent(fev[n], DoResult(GetSafeEventOrBody(n, fev[n]))))
         /\ filter' = [filter EXCEPT ![n] = flag]
    ELSE /\ Move(n, "done", None, {}, NoEvent, {})
         /\ filter' = ClearFilter(n)
         /\ UNCHANGED <<fidx, facc, settled, term_result>>

\* MapClass._do, up to its first await.  A synchronous do runs to its end: it
\* may call self.filter(), and it returns or raises.  An asynchronous do runs
\* up to its first await; it may call self.filter() before it or after it.
MapClass_do(n) ==
    /\ Kind(n) = "MapClass"
    /\ fpc[n] = "call"
    /\ IF fev[n] = TermEvent
       THEN /\ DoDownstream(n, TermEvent)
            /\ filter' = filter
       ELSE LET element == GetSafeEventOrBody(n, fev[n])
            IN IF IsAsync(n)
               THEN /\ Move(n, "do", fret[n], {}, NoEvent, {})
                    /\ \E early \in BOOLEAN :
                          filter' = [filter EXCEPT ![n] = @ \/ (early /\ DoCallsFilter(element))]
                    /\ UNCHANGED <<fidx, facc, settled, term_result>>
               ELSE IF DoRaises(element)
               THEN /\ Raise(n)
                    /\ filter' = [filter EXCEPT ![n] = @ \/ DoCallsFilter(element)]
               ELSE MapClass_after_call(n, filter[n] \/ DoCallsFilter(element))
    /\ UNCHANGED <<flowCfg, result, emitted>>
    /\ UNCHANGED notFlow

\* the asynchronous do of a MapClass returns or raises: _call, line 274
MapClass_resume(n) ==
    /\ fpc[n] = "do"
    /\ LET element == GetSafeEventOrBody(n, fev[n])
       IN IF DoRaises(element)
          THEN /\ Raise(n)
               /\ filter' = [filter EXCEPT ![n] = @ \/ DoCallsFilter(element)]
          ELSE MapClass_after_call(n, filter[n] \/ DoCallsFilter(element))
    /\ UNCHANGED <<flowCfg, result, emitted>>
    /\ UNCHANGED notFlow

\* lines 344-345 with the arguments of fn exchanged
ReduceResult_Swapped(n, acc, elem) == ReduceUserFn(ReduceFnOf(n), elem, acc)

\* Reduce._do, lines 341-345: self._fn(self._result, elem)
ReduceResult(n, acc, elem) == ReduceUserFn(ReduceFnOf(n), acc, elem)

\* Reduce._do
Reduce_do(n) ==
    /\ Kind(n) = "Reduce"
    /\ fpc[n] = "call"
    /\ IF fev[n] = TermEvent
       THEN /\ Move(n, "done", result[n], {}, NoEvent, {})
            /\ UNCHANGED result
       ELSE /\ result' = [result EXCEPT ![n] = ReduceResult(n, result[n], fev[n].body)]
            /\ Move(n, "done", None, {}, NoEvent, {})
    /\ UNCHANGED <<flowCfg, filter, fidx, facc, settled, term_result, emitted>>
    /\ UNCHANGED notFlow

\* Complete._do up to the await of line 300
Complete_do(n) ==
    /\ Kind(n) = "Complete"
    /\ fpc[n] = "call"
    /\ DoDownstream(n, fev[n])
    /\ UNCHANGED <<flowCfg, filter, result, emitted>>
    /\ UNCHANGED notFlow

RECURSIVE FirstMatch(_, _)
\* the loop of lines 104-107 (0: chosen_outlet stays None)
FirstMatch(arr, element) ==
    IF arr = <<>> THEN 0
    ELSE IF Condition(Head(arr).condition, element) THEN Head(arr).outlet
    ELSE FirstMatch(Tail(arr), element)

RECURSIVE LastMatch(_, _)
\* the loop of lines 104-107 without its break
LastMatch(arr, element) ==
    IF arr = <<>> THEN 0
    ELSE IF LastMatch(Tail(arr), element) # 0 THEN LastMatch(Tail(arr), element)
    ELSE IF Condition(Head(arr).condition, element) THEN Head(arr).outlet
    ELSE 0

ChosenOutlet_NoBreak(n, element) == LastMatch(choice_array, element)

\* chosen_outlet of Choice._do
ChosenOutlet(n, element) == FirstMatch(choice_array, element)

\* Choice._do up to its first await
Choice_do(n) ==
    /\ Kind(n) = "Choice"
    /\ fpc[n] = "call"
    /\ IF Outs(n) = <<>> \/ fev[n] = TermEvent THEN DoDownstream(n, fev[n])
       ELSE LET chosen_outlet == ChosenOutlet(n, GetSafeEventOrBody(n, fev[n]))
                target == IF chosen_outlet # 0 THEN {chosen_outlet}
                          ELSE IF Default(n) # 0 THEN {Default(n)}
                          ELSE {}
            IN /\ IF target = {}
                  THEN Move(n, "done", None, {}, NoEvent, {})
                  ELSE Move(n, "wait", fret[n], target, fev[n], {})
               /\ UNCHANGED <<fidx, facc, settled, term_result>>
    /\ UNCHANGED <<flowCfg, filter, result, emitted>>
    /\ UNCHANGED notFlow

\* _UnaryFunctionFlow._do of a Filter with a synchronous function
Filter_do(n) ==
    /\ Kind(n) = "Filter"
    /\ fpc[n] = "call"
    /\ IF fev[n] = TermEvent THEN DoDownstream(n, TermEvent)
       ELSE IF FilterUserFn(GetSafeEventOrBody(n, fev[n]))
       THEN DoDownstream(n, fev[n])
       ELSE /\ Move(n, "done", None, {}, NoEvent, {})
            /\ UNCHANGED <<fidx, facc, settled, term_result>>
    /\ UNCHANGED <<flowCfg, filter, result, emitted>>
    /\ UNCHANGED notFlow

\* fn_result of a FlatMap, lines 134-135
FnResult(n, event) == FlatMapUserFn(GetSafeEventOrBody(n, event))

\* _UnaryFunctionFlow._do of a FlatMap with a synchronous function, up to the
\* first await of FlatMap._do_internal
FlatMap_do(n) ==
    /\ Kind(n) = "FlatMap"
    /\ fpc[n] = "call"
    /\ IF fev[n] = TermEvent THEN DoDownstream(n, TermEvent)
       ELSE IF FnResult(n, fev[n]) = <<>> \/ Outs(n) = <<>>
       THEN /\ Move(n, "done", None, {}, NoEvent, {})
            /\ UNCHANGED <<fidx, facc, settled, term_result>>
       ELSE /\ Move(n, "flat", fret[n], Range(Outs(n)),
                    UserFnOutputToEvent(fev[n], FnResult(n, fev[n])[1]), {})
            /\ fidx' = [fidx EXCEPT ![n] = 1]
            /\ UNCHANGED <<facc, settled, term_result>>
    /\ UNCHANGED <<flowCfg, filter, result, emitted>>
    /\ UNCHANGED notFlow

\* FlatMap._do_internal, lines 187-189: _do_downstream has returned for element
\* fidx[n] of fn_result; the next element is forwarded, or _do returns
FlatMap_next(n) ==
    /\ fpc[n] = "flat"
    /\ \A o \in Awaited(n) : fpc[o] = "done"
    /\ IF fidx[n] < Len(FnResult(n, fev[n]))
       THEN /\ Move(n, "flat", fret[n], Range(Outs(n)),
                    UserFnOutputToEvent(fev[n], FnResult(n, fev[n])[fidx[n] + 1]), {})
            /\ fidx' = [fidx EXCEPT ![n] = @ + 1]
       ELSE /\ Move(n, "done", None, {}, NoEvent, Awaited(n))
            /\ UNCHANGED fidx
    /\ UNCHANGED <<flowCfg, filter, facc, settled, term_result, result, emitted>>
    /\ UNCHANGED notFlow

\* the source takes an emitted event and passes it to its outlets
Source_emit(b) ==
    /\ fpc[0] = "idle"
    /\ Len(emitted) < MaxFlowEvents
    /\ LET e == FlowEvent(Len(emitted) + 1, b)
       IN /\ emitted' = Append(emitted, e)
          /\ DoDownstream(0, e)
    /\ UNCHANGED <<flowCfg, filter, result>>
    /\ UNCHANGED notFlow

\* the source takes the sentinel pushed by terminate()
Source_terminate ==
    /\ fpc[0] = "idle"
    /\ DoDownstream(0, TermEvent)
    /\ UNCHANGED <<flowCfg, filter, result, emitted>>
    /\ UNCHANGED notFlow

InitFlow ==
    /\ shape \in {"linear", "complete", "fanout", "choice", "chain", "raising", "mapclass"}
    /\ flow_cfg \in FlowConfigs(shape)
    /\ fpc = [n \in Nodes |-> "idle"]
    /\ fev = [n \in Nodes |-> NoEvent]
    /\ fwait = [n \in Nodes |-> {}]
    /\ fidx = [n \in Nodes |-> 1]
    /\ facc = [n \in Nodes |-> None]
    /\ fret = [n \in Nodes |-> None]
    /\ result = [n \in Nodes |-> IF Kind(n) = "Reduce" THEN InitialValue(n) ELSE None]
    /\ filter = [n \in Nodes |-> FALSE]
    /\ flog = [n \in Nodes |-> <<>>]
    /\ settled = <<>>
    /\ emitted = <<>>
    /\ term_result = None

\* no step graph in the run
IdleFlow ==
    /\ shape = "none"
    /\ flow_cfg = DefaultCfg
    /\ fpc = [n \in Nodes |-> "idle"]
    /\ fev = [n \in Nodes |-> NoEvent]
    /\ fwait = [n \in Nodes |-> {}]
    /\ fidx = [n \in Nodes |-> 1]
    /\ facc = [n \in Nodes |-> None]
    /\ fret = [n \in Nodes |-> None]
    /\ result = [n \in Nodes |-> None]
    /\ filter = [n \in Nodes |-> FALSE]
    /\ flog = [n \in Nodes |-> <<>>]
    /\ settled = <<>>
    /\ emitted = <<>>
    /\ term_result = None

NextFlow ==
    \/ \E b \in Bodies : Source_emit(b)
    \/ Source_terminate
    \/ \E n \in Nodes : Map_do(n)
    \/ \E n \in Nodes : Map_resume(n)
    \/ \E n \in Nodes : MapClass_do(n)
    \/ \E n \in Nodes : MapClass_resume(n)
    \/ \E n \in Nodes : Reduce_do(n)
    \/ \E n \in Nodes : Complete_do(n)
    \/ \E n \in Nodes : Choice_do(n)
    \/ \E n \in Nodes : Filter_do(n)
    \/ \E n \in Nodes : FlatMap_do(n)
    \/ \E n \in Nodes : FlatMap_next(n)
    \/ \E n \in Nodes : Downstream_join(n)
    \/ \E n \in Nodes : Downstream_term_next(n)
    \/ \E n \in Nodes : Downstream_raise(n)

(***************************************************************************)
(* build_flow.                                                             *)
(*                                                                         *)
(* A nested list of steps is a sequence whose entries are steps, Step(n),  *)
(* or lists, List(l).  The steps of a list are numbered in the order in    *)
(* which they are written, every list but the empty one starts with a step *)
(* and an argument holds at most one empty list.                           *)
(***************************************************************************)
StepIds == 1..NumSteps

Step(n) == [step |-> n]

List(l) == [list |-> l]

\* isinstance(next_step, list)
IsList(x) == "list" \in DOMAIN x

RECURSIVE ItemSeqs(_, _, _), ListsOf(_, _, _)

\* the lists that start with step number first, hold n steps in all and hold an
\* empty list iff e
ListsOf(first, n, e) ==
    { <<Step(first)>> \o r : r \in ItemSeqs(first + 1, n - 1, e) }

\* the sequences of entries that hold the n steps first, first + 1, ... and hold an
\* empty list iff e
ItemSeqs(first, n, e) ==
    (IF n = 0 /\ ~e THEN {<<>>} ELSE {})
    \cup (IF n >= 1
          THEN { <<Step(first)>> \o r : r \in ItemSeqs(first + 1, n - 1, e) }
          ELSE {})
    \cup (IF e
          THEN { <<List(<<>>)>> \o r : r \in ItemSeqs(first, n, FALSE) }
          ELSE {})
    \cup UNION { UNION { { <<List(l)>> \o r : l \in ListsOf(first, j, e1),
                                             r \in ItemSeqs(first + j, n - j, e /\ ~e1) }
                         : e1 \in {FALSE, e} }
                 : j \in 1..n }

\* the arguments build_flow is called with
StepLists ==
    {<<>>} \cup UNION { ListsOf(1, n, e) : n \in 1..NumSteps, e \in BOOLEAN }

\* an outlet list that takes the new outlet in front
To_Prepend(outs, a, b) == [outs EXCEPT ![a] = <<b>> \o @]

\* lines 24-26: a.to(b)
To(outs, a, b) == [outs EXCEPT ![a] = Append(@, b)]

RECURSIVE BuildFlow(_, _), BuildLoop(_, _, _, _)

\* lines 774-779: the loop over steps[1:], at entry i with cur_step = cur
BuildLoop(ss, i, cur, outs) ==
    IF i > Len(ss)
    THEN [outlets |-> outs, ret |-> ss[1].step, raised |-> FALSE]
    ELSE IF IsList(ss[i])
    THEN LET sub == BuildFlow(ss[i].list, outs)
         IN  IF sub.raised
             THEN sub
             ELSE BuildLoop(ss, i + 1, cur, To(sub.outlets, cur, sub.ret))
    ELSE BuildLoop(ss, i + 1, ss[i].step, To(outs, cur, ss[i].step))

\* lines 752-780: build_flow(steps), with the outlets of all steps before and after
BuildFlow(ss, outs) ==
    IF Len(ss) = 0
    THEN [outlets |-> outs, ret |-> None, raised |-> TRUE]
    ELSE BuildLoop(ss, 2, ss[1].step, outs)

\* a call of build_flow(steps)
Build_flow ==
    /\ build_pc = "new"
    /\ LET r == BuildFlow(steps, outlets)
       IN  /\ outlets' = r.outlets
           /\ build_ret' = r.ret
           /\ build_pc' = IF r.raised THEN "raised" ELSE "returned"
    /\ UNCHANGED steps
    /\ UNCHANGED notBuild

InitBuild ==
    /\ steps \in StepLists
    /\ outlets = [s \in StepIds |-> <<>>]
    /\ build_pc = "new"
    /\ build_ret = None

NextBuild == Build_flow

\* no build_flow call in this run
IdleBuild ==
    /\ steps = <<>>
    /\ outlets = <<>>
    /\ build_pc = "idle"
    /\ build_ret = None

EngineInit == InitEngine /\ IdleBatch /\ IdleFlow /\ IdleBuild

SpecEngine == EngineInit /\ [][NextEngine]_vars

\* the event loop runs every task that can run, a put goes through once the
\* queue has room, and every external call ends; nothing obliges the caller to
\* call _do again
FairEngine ==
    /\ WF_vars(CJE_worker_get)
    /\ WF_vars(CBK_worker_get)
    /\ WF_vars(Worker_await)
    /\ WF_vars(CJE_worker_handle)
    /\ WF_vars(CBK_worker_handle)
    /\ WF_vars(CBK_worker_promote)
    /\ WF_vars(Worker_cleanup_done)
    /\ WF_vars(Do_await_worker)
    /\ \A who \in {"producer", "worker"} : WF_vars(Put_resume(who))
    /\ \A c \in 1..(MaxEvents + 1) : WF_vars(c <= Len(calls) /\ Call_finishes(c))

SpecEngineFair == EngineInit /\ [][NextEngine]_vars /\ FairEngine

BatchInit == InitBatch /\ IdleEngine /\ IdleFlow /\ IdleBuild

SpecBatch == BatchInit /\ [][NextBatch]_vars

\* the event loop runs every task that can run: a sleep that is over ends, and a
\* step suspended downstream resumes
FairBatch ==
    /\ \A t \in 1..(MaxBatchEvents + 1) : WF_vars(t <= Len(tasks) /\ Timeout_fires(t))
    /\ \A t \in 1..(MaxBatchEvents + 1) : WF_vars(t <= Len(tasks) /\ Timeout_resume(t))
    /\ WF_vars(Batch_do_resume)

SpecBatchFair == BatchInit /\ [][NextBatch]_vars /\ FairBatch

FlowInit == InitFlow /\ IdleEngine /\ IdleBatch /\ IdleBuild

SpecFlow == FlowInit /\ [][NextFlow]_vars

BuildInit == InitBuild /\ IdleEngine /\ IdleBatch /\ IdleFlow

SpecBuild == BuildInit /\ [][NextBuild]_vars

(***************************************************************************)
(* Claims about the concurrent engines.                                    *)
(***************************************************************************)
\* C1: in _ConcurrentJobExecution the events passed to _handle_completed are at
\* every moment a prefix of the submitted events, in submission order, whatever
\* order the external calls finish in, and they are all of them once
\* _do(_termination_obj) has returned.
C1_CompletionOrder ==
    engine = "plain" =>
        /\ IsPrefix(completed, submitted)
        /\ (last_do = "term_returned" => completed = submitted)

\* the external calls finished last-first, and the sentinel's _do has returned
C1_Witness ==
    /\ engine = "plain"
    /\ last_do = "term_returned"
    /\ Len(completed) = MaxEvents
    /\ Len(finished) >= 2
    /\ finished[1] > finished[2]

\* C2: in _ConcurrentByKeyJobExecution, for every key, the events of that key passed
\* to _handle_completed are at every moment a prefix of the events of that key in
\* submission order.
C2_PerKeyOrder ==
    engine = "bykey" =>
        \A k \in Keys : IsPrefix(SelectKey(completed, k), SelectKey(submitted, k))

\* a key whose later events were coalesced behind an outstanding call, all completed
C2_Witness ==
    /\ engine = "bykey"
    /\ \E k \in Keys :
         /\ Len(SelectKey(completed, k)) >= 3
         /\ \E c \in 1..Len(calls) : Len(calls[c].evs) >= 2

\* C5 as claimed: the number of outstanding external calls never exceeds max_in_flight.
C5_AtMostMaxInFlight == Cardinality(Outstanding) <= max_in_flight

\* a call to _do is made in this step
CallMade == Len(submitted') + term_calls' > Len(submitted) + term_calls

TermAt(log) == {i \in 1..Len(log) : log[i] = TermItem}

\* nothing follows the sentinel in the log, which holds it at most once
SentinelLast(log) == \A i \in TermAt(log) : i = Len(log)

\* C3 as claimed, on the graph Batch -> D -> S: once the sentinel has gone through,
\* D._do and S._do have each been called with it exactly once, and neither is ever
\* called with a real event (a batch) after it was called with the sentinel.
C3_SentinelOnceAndLast ==
    /\ SentinelLast(d_log)
    /\ SentinelLast(s_log)
    /\ (bpc = "done" => Cardinality(TermAt(d_log)) = 1 /\ Cardinality(TermAt(s_log)) = 1)

\* the batches passed to D._do whose handling was not cancelled
Delivered == {i \in 1..Len(d_log) : d_log[i] # TermItem /\ d_log[i] \notin aborted}

\* C4 as claimed: when the sentinel is forwarded, every event submitted to the Batch
\* step is in exactly one batch delivered downstream.
C4_EveryEventInOneBatch ==
    bpc = "done" =>
        \A e \in 1..b_in :
            Cardinality({i \in Delivered : \E j \in 1..Len(d_log[i].body) : d_log[i].body[j] = e}) = 1

(***************************************************************************)
(* Claims about step graphs.                                               *)
(***************************************************************************)
\* the real events of a log
RealEvents(log) == SelectSeq(log, LAMBDA e : e # TermEvent)

\* node n was passed the sentinel and its _do has returned
ReturnedSentinel(n) ==
    /\ flog[n] # <<>>
    /\ flog[n][Len(flog[n])] = TermEvent
    /\ fpc[n] \in {"done", "idle", "finished"}

\* this step passes the sentinel to the _do of node o
PassedSentinel(o) == flog'[o] # flog[o] /\ flog'[o][Len(flog'[o])] = TermEvent

RECURSIVE LeftFold(_, _)
\* f(...f(f(r1, r2), r3)..., rn) for the combiner f and a non-empty rs
LeftFold(name, rs) ==
    IF Len(rs) = 1 THEN rs[1]
    ELSE Combiner(name, LeftFold(name, SubSeq(rs, 1, Len(rs) - 1)), rs[Len(rs)])

RECURSIVE FirstNonNull(_)
FirstNonNull(rs) ==
    IF rs = <<>> THEN None
    ELSE IF Head(rs) # None THEN Head(rs)
    ELSE FirstNonNull(Tail(rs))

\* C6: a Map, Complete or Choice step passes the sentinel to its outlets one
\* after the other in outlet order, each outlet once and only after the
\* outlets before it have returned, and what the step returns for the sentinel
\* is the left fold of the outlets' results with the step's combiner: the
\* first non-null result with the default combiner, None with no outlets.
C6_SentinelFold ==
    [][ /\ \A n \in Nodes : \A i \in 1..Len(Outs(n)) :
              PassedSentinel(Outs(n)[i]) =>
                  /\ TermEvent \notin Range(flog[Outs(n)[i]])
                  /\ \A j \in 1..(i - 1) : ReturnedSentinel(Outs(n)[j])
                  /\ \A j \in (i + 1)..Len(Outs(n)) :
                         TermEvent \notin Range(flog[Outs(n)[j]])
        /\ \A n \in Nodes :
              (Kind(n) \in {"Map", "Complete", "Choice"} /\ ReturnedSentinel(n)') =>
                  IF Outs(n) = <<>> THEN fret'[n] = None
                  ELSE LET rs == [i \in 1..Len(Outs(n)) |-> fret'[Outs(n)[i]]]
                       IN /\ \A i \in 1..Len(Outs(n)) : ReturnedSentinel(Outs(n)[i])'
                          /\ fret'[n] = LeftFold(TerminationResultFnOf(n), rs)
                          /\ TerminationResultFnOf(n) = "default" =>
                                 fret'[n] = FirstNonNull(rs)
      ]_vars

\* three outlets with results r2, r3, r4 and the combiner 2x + y: the step
\* returned 2(2 r2 + r3) + r4, which is not the fold from the right
C6_Witness ==
    /\ shape = "fanout"
    /\ flow_cfg.termination_result_fn = "weighted"
    /\ fpc[0] = "finished"
    /\ Len(emitted) = 2
    /\ fret[1] = 2 * (2 * fret[2] + fret[3]) + fret[4]
    /\ fret[1] # 2 * fret[2] + (2 * fret[3] + fret[4])

RECURSIVE Fold(_, _, _)
\* fn(...fn(fn(acc, x1), x2)..., xn)
Fold(name, acc, xs) ==
    IF xs = <<>> THEN acc
    ELSE Fold(name, ReduceUserFn(name, acc, Head(xs)), Tail(xs))

BodiesOf(log) == [i \in 1..Len(log) |-> log[i].body]

\* C7: what a Reduce step returns for the sentinel is the left fold of fn over
\* the real events it received, in the order it received them, starting from
\* initial_value; in Source -> Map(g) -> Reduce the termination result of the
\* flow is that fold over g(e) for the emitted events e in emission order.
C7_ReduceFold ==
    /\ \A n \in Nodes :
          (Kind(n) = "Reduce" /\ ReturnedSentinel(n)) =>
              fret[n] = Fold(ReduceFnOf(n), InitialValue(n), BodiesOf(RealEvents(flog[n])))
    /\ (shape = "linear" /\ fpc[0] = "finished") =>
          term_result = Fold(flow_cfg.fn, flow_cfg.initial_value,
                             [i \in 1..Len(emitted) |->
                                 MapUserFn(flow_cfg.g, emitted[i].body)])

\* Reduce(1, 2 acc + x) after Map(2 x) on the bodies 1, 3: 2 (2 * 1 + 2) + 6
C7_Witness ==
    /\ shape = "linear"
    /\ flow_cfg.fn = "weighted" /\ flow_cfg.g = "double" /\ flow_cfg.initial_value = 1
    /\ fpc[0] = "finished"
    /\ BodiesOf(emitted) = <<1, 3>>
    /\ term_result = 14

RECURSIVE Subtree(_)
\* the steps below node n
Subtree(n) == UNION {{o} \cup Subtree(o) : o \in Range(Outs(n))}

\* the _set_result calls for the awaitable of event id
SettledFor(log, id) == {j \in 1..Len(log) : log[j].id = id}

\* C8: Complete settles the awaitable of a real event with the body it received
\* (the event with full_event), at a moment when every step below Complete has
\* been passed that event and none of them is still running; once Complete._do
\* has returned for an event its awaitable has been settled exactly once; in
\* Source -> Map(+1) -> Complete the event emitted with body i resolves to i + 1.
C8_CompleteSettles ==
    [][ /\ settled' # settled =>
              \E n \in Nodes :
                  /\ Kind(n) = "Complete"
                  /\ fpc[n] \in {"call", "wait"}
                  /\ fev[n] # TermEvent
                  /\ fev[n] = flog[n][Len(flog[n])]
                  /\ settled' = Append(settled,
                                    [id |-> fev[n].id,
                                     result |-> IF flow_cfg.full_event THEN fev[n]
                                                ELSE fev[n].body])
                  /\ SettledFor(settled, fev[n].id) = {}
                  /\ \A d \in Subtree(n) :
                        /\ fpc[d] \in {"idle", "done"}
                        /\ \E k \in 1..Len(flog[d]) : flog[d][k].id = fev[n].id
        /\ \A n \in Nodes : \A k \in 1..Len(flog'[n]) :
              (/\ Kind(n) = "Complete"
               /\ flog'[n][k] # TermEvent
               /\ (k < Len(flog'[n]) \/ fpc'[n] \in {"done", "idle"})) =>
                  Cardinality(SettledFor(settled', flog'[n][k].id)) = 1
        /\ \A j \in 1..Len(settled') :
              settled'[j].result =
                  IF flow_cfg.full_event
                  THEN FlowEvent(settled'[j].id, emitted'[settled'[j].id].body + 1)
                  ELSE emitted'[settled'[j].id].body + 1
      ]_vars

\* two events went through Complete and its subtree, whose Map suspends, and
\* both awaitables are settled
C8_Witness ==
    /\ shape = "complete"
    /\ flow_cfg.subtree /\ flow_cfg.is_async /\ ~flow_cfg.full_event
    /\ Len(settled) = 2
    /\ settled[2] = [id |-> 2, result |-> emitted[2].body + 1]
    /\ Len(flog[5]) = 2
    /\ fpc[2] = "idle"

\* the conditions of choice_array that are truthy for an element
Truthy(element) ==
    {i \in 1..Len(choice_array) : Condition(choice_array[i].condition, element)}

\* the outlet the claim names for an element (0: none)
ExpectedOutlet(element) ==
    IF Truthy(element) # {}
    THEN choice_array[CHOOSE i \in Truthy(element) : \A j \in Truthy(element) : i <= j].outlet
    ELSE IF flow_cfg.has_default THEN 4
    ELSE 0

\* C9: the real events passed to the _do of an outlet of Choice are exactly the
\* events Choice has handled whose first truthy condition is paired with that
\* outlet, or, for the default outlet, the events with no truthy condition; so
\* each event is passed to one outlet at most, and to none when no condition
\* is truthy and there is no default.
C9_ChoiceExactlyOne ==
    shape = "choice" =>
        LET received == RealEvents(flog[1])
            handled == IF fpc[1] = "call" /\ fev[1] # TermEvent
                       THEN SubSeq(received, 1, Len(received) - 1)
                       ELSE received
        IN \A o \in Range(Outs(1)) :
               RealEvents(flog[o]) =
                   SelectSeq(handled, LAMBDA e : ExpectedOutlet(e.body) = o)

\* body 2 makes both conditions truthy and went to the first outlet only; body
\* 0 makes none truthy and went to the default outlet
C9_Witness ==
    /\ shape = "choice"
    /\ flow_cfg.has_default
    /\ BodiesOf(emitted) = <<2, 0>>
    /\ fpc[1] = "idle"
    /\ flog[2] = <<emitted[1]>>
    /\ flog[3] = <<>>
    /\ flog[4] = <<emitted[2]>>

(***************************************************************************)
(* More claims about the concurrent engines.                               *)
(***************************************************************************)
\* C11: in both engines _cleanup is called once when the worker leaves its loop,
\* on the sentinel as well as on an exception of an external call or of
\* _handle_completed, and never otherwise: the worker is in or past _cleanup
\* exactly when _cleanup was called, it is called once at most, and from then on
\* the worker obtains no result and handles no event; on the sentinel it is
\* called with no job left in the FIFO and every call's result obtained.
C11_CleanupOnce ==
    [][ /\ cleanups' \in {0, 1}
        /\ (wpc' \in {"cleanup", "done"}) <=> (cleanups' = 1)
        /\ cleanups = 1 =>
              /\ completed' = completed
              /\ wpc' \in {"cleanup", "done"}
              /\ \A c \in 1..Len(calls) : calls'[c].got = calls[c].got
        /\ (cleanups = 0 /\ cleanups' = 1 /\ ~wexc') =>
              /\ q' = <<>>
              /\ \A c \in 1..Len(calls') : calls'[c].got
      ]_vars

\* the worker has ended on an exception after it handled an event, jobs are
\* still queued, and _cleanup has run
C11_Witness ==
    /\ wpc = "done"
    /\ wexc
    /\ completed # <<>>
    /\ q # <<>>
    /\ cleanups = 1

RECURSIVE CalledEvents(_, _)
\* the events with key k passed to the _process_event calls c, c + 1, ..., in order
CalledEvents(c, k) ==
    IF c > Len(calls) THEN <<>>
    ELSE SelectKey(calls[c].evs, k) \o CalledEvents(c + 1, k)

\* an external call for key k is outstanding
OutstandingFor(k) == \E c \in Outstanding : calls[c].evs[1].key = k

\* C12: in the by-key engine an event submitted while a call for its key is
\* outstanding is appended to the key's pending list and starts no call and no
\* job; when the worker has handled the completion of the key's call, all the
\* events then pending for the key are passed, in submission order, to one new
\* call; so every call holds events of one key only and the calls of a key,
\* followed by its pending list, hold the key's submitted events in order.
C12_Coalescing ==
    [][ engine = "bykey" =>
          /\ \A k \in Keys :
                (/\ Len(submitted') = Len(submitted) + 1
                 /\ submitted'[Len(submitted')].key = k
                 /\ ~WorkerDone
                 /\ OutstandingFor(k)) =>
                    /\ calls' = calls
                    /\ q' = q
                    /\ ppc' = "idle"
                    /\ pending_by_key'[k].pending =
                           Append(pending_by_key[k].pending, submitted'[Len(submitted')])
                    /\ pending_by_key'[k].in_flight = pending_by_key[k].in_flight
          /\ (wpc = "handle" /\ wpc' # "handle" /\ ~wexc') =>
                LET k == wjob.ev.key
                    pending == pending_by_key[k].pending
                IN /\ pending_by_key'[k].pending = <<>>
                   /\ IF pending = <<>> THEN calls' = calls
                      ELSE /\ Len(calls') = Len(calls) + 1
                           /\ calls'[Len(calls')].evs = pending
                           /\ pending_by_key'[k].in_flight = pending
          /\ \A c \in 1..Len(calls') : \A i \in 1..Len(calls'[c].evs) :
                calls'[c].evs[i].key = calls'[c].evs[1].key
          /\ refused' = 0 =>
                \A k \in Keys :
                    CalledEvents(1, k)' \o pending_by_key'[k].pending
                        = SelectKey(submitted', k)
      ]_vars

\* two events of one key arrived while the key's first call was outstanding and
\* went together into the key's second call
C12_Witness ==
    /\ engine = "bykey"
    /\ Len(calls) = 2
    /\ Len(calls[1].evs) = 1
    /\ Len(calls[2].evs) = 2
    /\ calls[2].evs[1].key = calls[1].evs[1].key

\* this step is a call of _do with a real event, which the engine accepts
DoCalled == Len(submitted') = Len(submitted) + 1 /\ ~WorkerDone

\* the FIFO never holds more than max_in_flight jobs; a producer waiting in put
\* leaves it only into a FIFO with room, with its job appended; only the worker
\* takes jobs out
BoundedFifo ==
    /\ Len(q') <= max_in_flight
    /\ (ppc = "put" /\ ppc' # "put") => (Len(q) < max_in_flight /\ q' = Append(q, pjob))
    /\ Len(q') < Len(q) => (wpc \in {"get", "await", "handle"} /\ ppc' = ppc)

\* C15 as stated: in both engines a _do with a real event that finds the FIFO
\* full does not return before the worker has dequeued a job: it waits in put,
\* holding its job.
C15_BackPressure ==
    [][ /\ BoundedFifo
        /\ (DoCalled /\ Len(q) = max_in_flight) =>
              (ppc' = "put" /\ pjob'.ev = submitted'[Len(submitted')])
      ]_vars

\* C15: the FIFO never holds more than max_in_flight jobs; a _do that has a job
\* to enqueue (every real event in _ConcurrentJobExecution, an event whose key
\* has nothing in flight in the by-key engine) and finds the FIFO full waits in
\* put, holding its job, until the worker has dequeued a job, and then appends
\* it; with room it appends the job at once; a by-key event whose key has events
\* in flight enqueues nothing and returns at once, also when the FIFO is full.
C15_BackPressureOfJobs ==
    [][ /\ BoundedFifo
        /\ DoCalled =>
              LET ev == submitted'[Len(submitted')]
              IN IF engine = "bykey" /\ pending_by_key[ev.key].in_flight # <<>>
                 THEN ppc' = "idle" /\ q' = q /\ calls' = calls /\ last_do' = "returned"
                 ELSE IF Len(q) = max_in_flight
                 THEN ppc' = "put" /\ pjob'.ev = ev /\ q' = q
                 ELSE ppc' = "idle" /\ q' = Append(q, Job(ev, Len(calls')))
      ]_vars

\* the by-key FIFO is full, an event joined the pending list of a key in flight
\* all the same, and the producer now waits in put with a job of another key
C15_Witness ==
    /\ engine = "bykey"
    /\ ppc = "put"
    /\ pjob # TermJob
    /\ Len(q) = max_in_flight
    /\ \E k \in Keys : pending_by_key[k].pending # <<>> /\ k # pjob.ev.key

(***************************************************************************)
(* More claims about step graphs.                                          *)
(***************************************************************************)
\* node n has several outlets and passes every real event to all of them
FansOut(n) == Len(Outs(n)) >= 2 /\ Kind(n) \in {"Source", "Map", "Complete"}

\* the _do of node n is running
Running(n) == fpc[n] \notin {"idle", "done", "raised"}

\* C13: a step with two or more outlets passes a real event to the _do of every
\* outlet in one go, the same event to each, passes nothing more while it waits,
\* and its _do_downstream returns only when the _do of every outlet has
\* returned: as long as the _do of an outlet is running and no _do has raised,
\* the step is inside _do_downstream and the source takes no further event.
C13_FanOutWaitsForAll ==
    [][ \A n \in Nodes : FansOut(n) =>
          /\ (fpc[n] # "wait" /\ fpc'[n] = "wait") =>
                \E e \in {flog'[Outs(n)[1]][Len(flog'[Outs(n)[1]])]} :
                    /\ e # TermEvent
                    /\ \A i \in 1..Len(Outs(n)) :
                           /\ flog'[Outs(n)[i]] = Append(flog[Outs(n)[i]], e)
                           /\ fpc'[Outs(n)[i]] = "call"
          /\ (fpc[n] = "wait" /\ fpc'[n] = "wait") =>
                \A i \in 1..Len(Outs(n)) : flog'[Outs(n)[i]] = flog[Outs(n)[i]]
          /\ (fpc[n] = "wait" /\ fpc'[n] \notin {"wait", "raised"}) =>
                \A i \in 1..Len(Outs(n)) : fpc[Outs(n)[i]] = "done"
          /\ ((\E i \in 1..Len(Outs(n)) : Running(Outs(n)[i])')
                 /\ \A m \in Nodes : fpc'[m] # "raised") =>
                /\ fpc'[n] \in {"wait", "term"}
                /\ fpc'[0] \in {"wait", "term"}
                /\ emitted' = emitted
      ]_vars

\* a step with three outlets waits: the first outlet is suspended in its
\* function, the second has returned, the third has not started yet
C13_Witness ==
    /\ shape = "fanout"
    /\ fpc[1] = "wait"
    /\ fpc[2] = "fn"
    /\ fpc[3] = "done"
    /\ fpc[4] = "call"
    /\ Len(emitted) = 2

\* the events a FlatMap derives from the emitted event i, in the order of fn_result
DerivedFrom(i) ==
    [j \in 1..Len(FlatMapUserFn(emitted[i].body)) |->
        FlowEvent(i, FlatMapUserFn(emitted[i].body)[j])]

RECURSIVE DerivedSince(_)
\* the events derived from the emitted events i, i + 1, ..., in emission order
DerivedSince(i) ==
    IF i > Len(emitted) THEN <<>> ELSE DerivedFrom(i) \o DerivedSince(i + 1)

\* the log is the expected one, or a part of it while an event is on its way
UpTo(log, expected) ==
    /\ IsPrefix(RealEvents(log), expected)
    /\ fpc[0] \in {"idle", "finished", "term"} => RealEvents(log) = expected

\* in the chain every step has received exactly the events derived for it
ChainLogs ==
    LET kept == SelectSeq(DerivedSince(1), LAMBDA e : FilterUserFn(e.body))
        mapped == [i \in 1..Len(kept) |-> [kept[i] EXCEPT !.body = @ + 1]]
    IN /\ RealEvents(flog[1]) = emitted
       /\ UpTo(flog[2], DerivedSince(1))
       /\ UpTo(flog[3], kept)
       /\ UpTo(flog[4], mapped)
       /\ UpTo(flog[5], mapped)

\* C14: the _do of every step receives real events in the order in which the
\* events they derive from were emitted; in the chain Source -> FlatMap ->
\* Filter -> Map(+1) -> [Reduce, Reduce] each step receives exactly the events
\* derived for it, in emission order and, within one emitted event, in the
\* order of fn_result; and when the source takes the next event every step has
\* returned from the event before.
C14_PerEdgeOrder ==
    [][ /\ \A n \in Nodes : \A i, j \in 1..Len(RealEvents(flog'[n])) :
              i < j => RealEvents(flog'[n])[i].id <= RealEvents(flog'[n])[j].id
        /\ shape = "chain" => ChainLogs'
        /\ emitted' # emitted => \A n \in Nodes \ {0} : fpc[n] = "idle"
      ]_vars

\* bodies 2 and 1 went through the chain: FlatMap made 2, 3 and 1 of them, Filter
\* dropped the 3, and both Reduce steps received 3 and 2 in that order
C14_Witness ==
    /\ shape = "chain"
    /\ flow_cfg.is_async
    /\ fpc[0] = "finished"
    /\ BodiesOf(emitted) = <<2, 1>>
    /\ BodiesOf(RealEvents(flog[2])) = <<2, 3, 1>>
    /\ BodiesOf(RealEvents(flog[3])) = <<2, 1>>
    /\ BodiesOf(RealEvents(flog[5])) = <<3, 2>>
    /\ RealEvents(flog[5])[1].id = 1 /\ RealEvents(flog[5])[2].id = 2

(***************************************************************************)
(* More claims about batching.                                             *)
(***************************************************************************)
\* the batches in a log of _do arguments, in order
Batches(log) == SelectSeq(log, LAMBDA x : x # TermItem)

RECURSIVE Chunks(_, _)
\* the events first, first + 1, ..., last cut into consecutive lists of m
\* events, the last one shorter when m does not divide their number; each list
\* as the event that carries it, with the time of its first event
Chunks(first, last) ==
    IF first > last THEN <<>>
    ELSE IF max_events = 0 \/ first + max_events - 1 >= last
    THEN <<[body |-> [i \in 1..(last - first + 1) |-> InEvent(first + i - 1).body],
            time |-> InEvent(first).time]>>
    ELSE <<[body |-> [i \in 1..max_events |-> InEvent(first + i - 1).body],
            time |-> InEvent(first).time]>>
         \o Chunks(first + max_events, last)

\* the number of events in the full chunks of the first n events
InFullChunks(n) == IF max_events = 0 THEN 0 ELSE n - (n % max_events)

\* C16: without a timeout, the batches emitted before the sentinel are the full
\* chunks of max_events consecutive events of the input, in input order (none
\* when max_events is None), and once the sentinel has gone through the
\* batches are all the consecutive chunks of the input, the last one holding
\* the remaining events: ceil(n / max_events) batches for n events, one batch
\* when max_events is None and n > 0; the step below receives the same batches.
C16_ChunksInOrder ==
    ~timeout_secs =>
        /\ bpc \notin {"done", "term_emit"} =>
              Batches(d_log) = Chunks(1, InFullChunks(b_in))
        /\ bpc = "done" =>
              /\ Batches(d_log) = Chunks(1, b_in)
              /\ Batches(s_log) = Chunks(1, b_in)
              /\ max_events > 0 =>
                    Len(Batches(d_log)) * max_events \in b_in..(b_in + max_events - 1)
              /\ (max_events = 0 /\ b_in > 0) => Len(Batches(d_log)) = 1

\* three events with max_events = 2: the batches [1, 2] and, on termination, [3]
C16_Witness ==
    /\ ~timeout_secs
    /\ max_events = 2
    /\ bpc = "done"
    /\ d_log = <<BatchEvent(<<1, 2>>, 1), BatchEvent(<<3>>, 3), TermItem>>
    /\ s_log = d_log

\* C17: every batch passed downstream is a non-empty list and, when max_events
\* is set, holds at most max_events events, whatever emitted it; the batch in
\* hand holds fewer than max_events events; and a step that takes no new event
\* while the batch in hand is empty (the sentinel, a timeout) emits no batch.
C17_BatchSizes ==
    [][ /\ \A i \in 1..Len(Batches(d_log')) :
              /\ Len(Batches(d_log')[i].body) >= 1
              /\ max_events > 0 => Len(Batches(d_log')[i].body) <= max_events
        /\ event_count' = Len(batch')
        /\ max_events > 0 => Len(batch') < max_events
        /\ (batch = <<>> /\ b_in' = b_in) => Batches(d_log') = Batches(d_log)
      ]_vars

\* the sentinel arrived when the batch in hand was empty, after a batch emitted
\* on size and a batch emitted on a timeout: nothing but the sentinel followed
C17_Witness ==
    /\ timeout_secs
    /\ max_events = 2
    /\ bpc = "done"
    /\ d_log = <<BatchEvent(<<1, 2>>, 1), BatchEvent(<<3>>, 3), TermItem>>
    /\ \E t \in 1..Len(tasks) : tasks[t].st = "done"

\* C18: with a timeout configured, a non-empty batch in hand is eventually
\* emitted downstream, also when no further event and no sentinel arrives; a
\* batch emitted by a timeout task is one event that holds the events received
\* since the batch's first event and carries the time of that first event.
C18_TimeoutEmits ==
    /\ \A k \in 1..MaxBatchEvents :
          (timeout_secs /\ batch # <<>> /\ batch[1] = k)
              ~> (\E i \in 1..Len(d_log) : d_log[i] # TermItem /\ d_log[i].body[1] = k)
    /\ [][ \A t \in 1..Len(tasks) :
              (tasks[t].st = "sleeping" /\ tasks'[t].st \in {"emitting", "done"}) =>
                  /\ batch # <<>>
                  /\ d_log' = Append(d_log, [body |-> batch,
                                              time |-> InEvent(batch[1]).time])
                  /\ batch' = <<>>
         ]_vars

\* two events arrived, max_events is None and no sentinel came: the batch [1, 2]
\* with the time of event 1 was emitted by the timeout
C18_Witness ==
    /\ timeout_secs
    /\ max_events = 0
    /\ bpc = "idle"
    /\ b_in = 2
    /\ d_log = <<BatchEvent(<<1, 2>>, 1)>>
    /\ batch = <<>>

(***************************************************************************)
(* Claims about build_flow.                                                *)
(***************************************************************************)
RECURSIVE HasEmpty(_), Holds(_, _), ExpectedOutlets(_, _)

\* the list, or a list nested in it, is empty
HasEmpty(l) ==
    \/ l = <<>>
    \/ \E i \in 1..Len(l) : IsList(l[i]) /\ HasEmpty(l[i].list)

\* step s is written in the list or in a list nested in it
Holds(l, s) ==
    \E i \in 1..Len(l) : IF IsList(l[i]) THEN Holds(l[i].list, s) ELSE l[i].step = s

\* the step an entry attaches: the step itself, the first step of a list
HeadOf(x) == IF IsList(x) THEN x.list[1].step ELSE x.step

\* the outlets step s must have: s is an entry of one list, and its outlets are
\* the heads of the entries that follow it in that list, up to and including the
\* next entry that is a step
ExpectedOutlets(l, s) ==
    LET here == {i \in 1..Len(l) : ~IsList(l[i]) /\ l[i].step = s}
        below == {i \in 1..Len(l) : IsList(l[i]) /\ Holds(l[i].list, s)}
    IN  IF here # {}
        THEN LET i == CHOOSE x \in here : TRUE
                 later == {j \in (i + 1)..Len(l) : ~IsList(l[j])}
                 last == IF later = {} THEN Len(l)
                         ELSE CHOOSE j \in later : \A k \in later : j <= k
             IN  [k \in 1..(last - i) |-> HeadOf(l[i + k])]
        ELSE IF below # {}
        THEN ExpectedOutlets(l[CHOOSE x \in below : TRUE].list, s)
        ELSE <<>>

\* C19: build_flow on a nested list without empty lists returns the first
\* element, and afterwards the outlets of every step are, in list order, the
\* heads of the nested lists that follow it and then the next step of its own
\* list; build_flow raises iff the list or a list nested in it is empty, and
\* on the empty list it links nothing.
C19_BuildFlow ==
    build_pc \in {"returned", "raised"} =>
        /\ (build_pc = "raised") <=> HasEmpty(steps)
        /\ steps = <<>> => \A s \in StepIds : outlets[s] = <<>>
        /\ ~HasEmpty(steps) =>
              /\ build_ret = steps[1].step
              /\ \A s \in StepIds : outlets[s] = ExpectedOutlets(steps, s)

\* [a, [b1, b2], c] gave exactly a -> b1, b1 -> b2, a -> c and returned a
C19_Witness ==
    /\ steps = <<Step(1), List(<<Step(2), Step(3)>>), Step(4)>>
    /\ build_pc = "returned"
    /\ build_ret = 1
    /\ outlets[1] = <<2, 4>>
    /\ outlets[2] = <<3>>
    /\ outlets[3] = <<>>
    /\ outlets[4] = <<>>

(***************************************************************************)
(* Claims about failures.                                                  *)
(***************************************************************************)
\* C20: once the _do_downstream of a step with several outlets has raised to
\* its caller, because the processing of the event raised in one outlet, no
\* other outlet of the step is still processing that event.
C20_SiblingsCancelled ==
    \A n \in Nodes :
        (FansOut(n) /\ fpc[n] = "raised") =>
            \A o \in Range(Outs(n)) : ~Running(o)

(***************************************************************************)
(* More claims about the concurrent engines.                               *)
(***************************************************************************)
\* C21: when the worker raises, the FIFO is drained: the step in which the
\* worker fails leaves no job in the queue, however many were queued.
C21_DrainedOnFailure ==
    [][ (~wexc /\ wexc') => q' = <<>> ]_vars

\* C24: _lazy_init runs exactly once, in the first call of _do, whether that
\* call carries a real event or the sentinel; the queue and the worker task are
\* created in that call and never again, and no _process_event task exists
\* before.
C24_LazyInitOnce ==
    [][ /\ lazy_inits' \in {0, 1}
        /\ (lazy_inits' = 1) <=> (Len(submitted') + term_calls' > 0)
        /\ (lazy_inits' = 1) <=> started'
        /\ started' <=> (wpc' # "none")
        /\ lazy_inits' # lazy_inits =>
              /\ calls = <<>>
              /\ q = <<>>
              /\ wpc = "none"
              /\ wpc' = "get"
        /\ calls' # <<>> => lazy_inits' = 1
        /\ wpc = "done" => wpc' = "done"
      ]_vars

\* the first call of _do carried the sentinel, a second call carried an event:
\* one initialisation
C24_Witness ==
    /\ lazy_inits = 1
    /\ term_calls = 1
    /\ late_calls = 1
    /\ Len(submitted) = 1

\* the key of the events of call c
KeyOfCall(c) == calls[c].evs[1].key

\* the jobs for key k that are in the FIFO or in the hands of a suspended put
JobsFor(k) ==
    Cardinality({i \in 1..Len(q) : q[i] # TermJob /\ q[i].ev.key = k})
    + (IF ppc = "put" /\ pjob # TermJob /\ pjob.ev.key = k THEN 1 ELSE 0)
    + (IF wpc = "put" /\ wjob # TermJob /\ wjob.ev.key = k THEN 1 ELSE 0)

\* every event of call c has been passed to _handle_completed
AllHandled(c) ==
    \A i \in 1..Len(calls[c].evs) :
        \E j \in 1..Len(completed) : completed[j] = calls[c].evs[i]

\* C27: in the by-key engine there is, for every key, at most one call whose
\* result the worker has not obtained and at most one job in or on its way into
\* the FIFO; and a call for a key is started only when every event of the
\* earlier calls for that key has been passed to _handle_completed.
C27_OneCallPerKey ==
    [][ engine = "bykey" =>
          /\ \A k \in Keys :
                /\ Cardinality({c \in Outstanding' : KeyOfCall(c)' = k}) <= 1
                /\ JobsFor(k)' <= 1
          /\ Len(calls') > Len(calls) =>
                /\ Len(calls') = Len(calls) + 1
                /\ \A c \in 1..Len(calls) :
                      KeyOfCall(c) = calls'[Len(calls')].evs[1].key => AllHandled(c)
      ]_vars

\* two calls were made for one key; the second is outstanding with its job in
\* the FIFO, next to the job of another key
C27_Witness ==
    /\ engine = "bykey"
    /\ Len(calls) = 3
    /\ KeyOfCall(1) = KeyOfCall(3)
    /\ KeyOfCall(2) # KeyOfCall(1)
    /\ AllHandled(1)
    /\ Outstanding = {2, 3}
    /\ Len(q) = 2

\* C28: in the by-key engine every record present in pending_by_key has events
\* in flight whenever control can pass between the producer and the worker, so
\* no key has events pending and none in flight; the worker's sentinel branch
\* therefore passes nothing to _handle_completed and starts no call.
C28_PresentMeansInFlight ==
    [][ engine = "bykey" =>
          /\ \A k \in Keys :
                /\ pending_by_key'[k].present => pending_by_key'[k].in_flight # <<>>
                /\ pending_by_key'[k].pending # <<>> => pending_by_key'[k].present
          /\ Unsent(pending_by_key') = {}
          /\ (wpc = "get" /\ q # <<>> /\ Head(q) = TermJob /\ (wpc' # "get" \/ q' # q)) =>
                /\ completed' = completed
                /\ calls' = calls
                /\ pending_by_key' = pending_by_key
      ]_vars

\* the worker is about to dequeue the sentinel while a job is queued behind it
\* and a key has a record
C28_Witness ==
    /\ engine = "bykey"
    /\ wpc = "get"
    /\ Len(q) = 2
    /\ q[1] = TermJob
    /\ \E k \in Keys : pending_by_key[k].present

\* C29: once the worker has ended normally, after the sentinel, every call of
\* _do, with a real event or with the sentinel, raises FlowError: it starts no
\* _process_event, puts nothing into the FIFO, leaves pending_by_key as it is,
\* passes nothing to _handle_completed and forwards nothing downstream.
C29_RefusedAfterTermination ==
    [][ (WorkerDone /\ ~wexc /\ CallMade) =>
          /\ term_calls >= 1
          /\ last_do' = "flow_error"
          /\ ppc' = "idle"
          /\ calls' = calls
          /\ q' = q
          /\ pending_by_key' = pending_by_key
          /\ completed' = completed
          /\ sent_down' = sent_down
          /\ refused' = refused + 1
      ]_vars

\* by-key engine: an event and the sentinel went through, the sentinel was
\* forwarded once, and a second sentinel was refused with FlowError
C29_Witness ==
    /\ engine = "bykey"
    /\ ~wexc
    /\ wpc = "done"
    /\ Len(completed) = 1
    /\ term_calls = 2
    /\ sent_down = 1
    /\ last_do = "flow_error"

\* the by-key engine has ended: every submitted event was passed to
\* _handle_completed, no key has a record, the worker is done and the sentinel's
\* _do has forwarded the sentinel and returned
ByKeyEnded ==
    /\ wpc = "done"
    /\ ppc = "idle"
    /\ sent_down >= 1
    /\ \A i \in 1..Len(submitted) : \E j \in 1..Len(completed) : completed[j] = submitted[i]
    /\ \A k \in Keys : ~pending_by_key[k].present

\* C25: in the by-key engine, when no hook raises and every external call ends,
\* the submission of the sentinel leads to the engine's end: all the events
\* submitted before it handled, pending_by_key empty, the worker done, the sentinel forwarded; so
\* neither the worker nor the producer waits forever in a put.
C25_ByKeyTerminates ==
    (engine = "bykey" /\ ~may_raise /\ term_calls = 1 /\ late_calls = 0) ~> ByKeyEnded

\* C26: in _ConcurrentJobExecution, once the worker has raised, a call of _do
\* that is under way comes to an end, by returning or by raising.
C26_NoHangAfterFailure ==
    (engine = "plain" /\ wexc /\ ppc # "idle") ~> (ppc = "idle")

(***************************************************************************)
(* Claims about MapClass.                                                  *)
(***************************************************************************)
\* the events of log that the MapClass forwards: those on which do does not call
\* self.filter(), each as one event with the same id and the body do returned
ForwardedByMapClass(log) ==
    LET kept == SelectSeq(log, LAMBDA e : e.body % 2 = 0)
    IN [i \in 1..Len(kept) |-> [id |-> kept[i].id, body |-> kept[i].body + 2]]

\* C22: over any sequence of events passed to a MapClass one at a time, the
\* events forwarded to its outlet are exactly those on which do did not call
\* self.filter(), one derived event each and in order, so that an event is
\* dropped if and only if its own do called filter(); the flag is set only
\* while the event whose do set it is being handled (or once that do has
\* raised), so it never carries over to the next event.
C22_MapClassFilter ==
    shape = "mapclass" =>
        /\ RealEvents(flog[1]) = emitted
        /\ UpTo(flog[2], ForwardedByMapClass(emitted))
        /\ fpc[1] = "done" => RealEvents(flog[2]) = ForwardedByMapClass(emitted)
        /\ filter[1] =>
              /\ fpc[1] \in {"do", "raised"}
              /\ fev[1] # TermEvent
              /\ fev[1].body % 2 = 1

\* a filtered event was directly followed by one whose do did not call filter(),
\* and only the second reached the outlet
C22_Witness ==
    /\ shape = "mapclass"
    /\ flow_cfg.is_async
    /\ BodiesOf(emitted) = <<1, 2>>
    /\ flog[2] = <<[id |-> 2, body |-> 4]>>
    /\ fpc[0] = "idle"
    /\ ~filter[1]

(***************************************************************************)
(* Claims about the cancellation of the batch timeout.                     *)
(***************************************************************************)
\* the timeout tasks that are sleeping and were not cancelled
Sleeping(ts) == {t \in 1..Len(ts) : ts[t].st = "sleeping"}

\* the sentinel has arrived at Batch._do
SentinelArrived == bpc \in {"term_emit", "done"}

\* C23: the timeout task scheduled for a batch is cancelled when the size trigger
\* emits that batch and when the sentinel arrives; the t-th timeout task is
\* created with the first event of the t-th batch and, when its sleep ends, it
\* emits that batch as it is then, never events of a later batch and nothing
\* once the sentinel has arrived or was forwarded; at any moment at most one
\* timeout task that was not cancelled is sleeping, it is self._timeout_task,
\* and the current batch is non-empty while it sleeps.
C23_TimeoutCancelled ==
    [][ /\ Cardinality(Sleeping(tasks')) <= 1
        /\ \A t \in Sleeping(tasks') :
              /\ t = timeout_task'
              /\ Len(batch') > 0
              /\ ~SentinelArrived'
              /\ TermItem \notin Range(d_log')
        \* a timeout task is created with the first event of a batch
        /\ Len(tasks') > Len(tasks) =>
              /\ b_in' = b_in + 1
              /\ batch = <<>>
              /\ Len(tasks') = Len(tasks) + 1
              /\ timeout_task' = Len(tasks')
              /\ Len(tasks') = Len(d_log) + 1
        \* the size trigger emits the batch: its timeout task is cancelled
        /\ (b_in' = b_in + 1 /\ d_log' # d_log) =>
              /\ Sleeping(tasks') = {}
              /\ timeout_secs => tasks'[timeout_task'].st = "cancelled"
              /\ d_log' = Append(d_log, [body |-> Append(batch, b_in'),
                                         time |-> b_in' - Len(batch)])
        \* the sentinel arrives: no timeout task sleeps on
        /\ (~SentinelArrived /\ SentinelArrived') =>
              /\ Sleeping(tasks') = {}
              /\ (timeout_task # 0 /\ Len(batch) > 0) =>
                     tasks'[timeout_task].st = "cancelled"
        \* the sleep of task t ends: it emits the batch it was created for
        /\ \A t \in Sleeping(tasks) \ Sleeping(tasks') :
              tasks'[t].st # "cancelled" =>
                 /\ Len(batch) > 0
                 /\ ~SentinelArrived
                 /\ Len(d_log) = t - 1
                 /\ d_log' = Append(d_log, [body |-> batch, time |-> batch_time])
                 /\ batch_time = batch[1]
                 /\ batch' = <<>>
        \* nothing is emitted once the sentinel was forwarded
        /\ TermItem \in Range(d_log) => d_log' = d_log
      ]_vars

\* the timeout of the first batch was cancelled by the size trigger, the timeout
\* of the second batch has emitted it, and the sentinel was forwarded after it
C23_Witness ==
    /\ Len(tasks) = 2
    /\ tasks[1].st = "cancelled"
    /\ tasks[2].st = "done"
    /\ d_log = <<[body |-> <<1, 2>>, time |-> 1], [body |-> <<3>>, time |-> 3], TermItem>>

=============================================================================
